---------------------------- MODULE Spec2Model ----------------------------
(***************************************************************************)
(* Model of the cnosdb meta clients.                                       *)
(*                                                                         *)
(*   - Client (src/meta/client.go), the single-process LocalClient: a      *)
(*     private Data, persisted to meta.db by commit, with an               *)
(*     authentication cache in front of the bcrypt hashes.                 *)
(*   - RemoteClient and store (src/unnamed/part_000): the cluster client   *)
(*     with its snapshot poller and its command retry loop.                *)
(*                                                                         *)
(* Every method that runs under c.mu for its whole body is one action.     *)
(* Client.Authenticate takes the lock three times and is three steps.      *)
(***************************************************************************)
EXTENDS Integers, Sequences, FiniteSets, TLC

(***************************************************************************)
(* Bounds of the model.                                                    *)
(***************************************************************************)
\* commit is enabled while the Index it produces stays <= MaxIndex
MaxIndex == 4
\* bcrypt.GenerateFromPassword draws its salt from 1..MaxBcryptSalt
MaxBcryptSalt == 2
\* saltedHash draws its salt from 1..MaxSalt
MaxSalt == 1
\* NewClient draws ClusterID from 1..MaxClusterID
MaxClusterID == 2
\* the cluster has the meta servers 1..NumServers
NumServers == 3
\* the raft log is explored up to MaxRaftIndex committed entries
MaxRaftIndex == 3

\* PrecreateShardGroups takes its from and to in 0..MaxTime (nanoseconds)
MaxTime == 5

\* the attempts retryUntilExec makes before it gives up
maxRetries == 10

\* one hour, in units of thirty minutes
MinRetentionPolicyDuration == 2

\* the meta nodes of a cluster have the IDs 1..MaxNodeID when the store starts
MaxNodeID == 2
\* the store is explored up to Index MaxStoreIndex
MaxStoreIndex == 4

\* a shard group was deleted at a time in 1..MaxDeletedAt (weeks)
MaxDeletedAt == 3

\* the goroutines 1..NumCreators call CreateShardGroup
NumCreators == 2

\* the addresses a Data object can have are 0..MaxObj
MaxObj == 1

\* the requests AcquireLease makes before it gives up (for n := 1; n < 11; n++)
leaseAttempts == 10

UserNames == {"u1", "u2"}
Passwords == {"p1", "p2"}
DbNames == {"db0"}

\* Go's nil (a pointer, a map miss, an absent file)
Nil == [nil |-> TRUE]

VARIABLES
    \* ---- Client (LocalClient) ----
    cacheData,                  \* c.cacheData: the Data it points to
    cacheObj,                   \* c.cacheData: the address of that Data
    watched,                    \* the channel a caller got from WaitForDataChanged
    authCache,                  \* c.authCache
    metaDb,                     \* the content of <path>/meta.db, Nil when absent
    mu,                         \* c.mu: "free" or "held" (held by a caller that returned)
    closing,                    \* c.closing is closed
    opened,                     \* Open has returned nil on this client
    retentionPolicyAutoCreate,  \* c.retentionPolicyAutoCreate
    ret,                        \* what the caller's last call returned, Nil once it has read it
    beforeClose,                \* the Data of the client that was closed, until the next Open
    \* ---- a goroutine inside Client.Authenticate ----
    authCall,                   \* its position, arguments and locals
    authRaced,                  \* a commit or an eviction happened during the call
    \* ---- RemoteClient ----
    remoteCacheData,            \* c.cacheData
    remoteAuthCache,            \* c.authCache
    changed,                    \* c.changed: how many channels have been closed and replaced
    remoteClosing,              \* c.closing is closed
    poll,                       \* Open, then the pollForUpdates goroutine: position and locals
    call,                       \* a caller inside retryUntilExec: position and locals
    \* ---- the meta servers ----
    raftLog,                    \* raftLog[i]: the Data after the i-th committed entry
    applied,                    \* applied[s]: the entry server s has applied, its store's data
    leader,                     \* the server that is the raft leader
    \* ---- the store of one meta server ----
    store,                      \* s.data, s.raftState (nil, or voters and leader), s.dataChanged
    member,                     \* a caller inside addMetaNode: position and locals
    waiter,                     \* a goroutine receiving from afterIndex's channel
    \* ---- goroutines inside Client.CreateShardGroup ----
    creators,                   \* creators[c]: position, arguments and result of caller c
    \* ---- a goroutine inside Client.Data ----
    reader,                     \* its position and what it has copied
    \* ---- the mutexes of the RemoteClient and of the store ----
    locks,                      \* who holds c.mu and s.mu, and a caller of CreateUser
    \* ---- store.open and store.close ----
    opener                      \* s.opened, s.closing, and a goroutine in store.open

localVars == <<cacheData, cacheObj, watched, authCache, metaDb, mu, closing, opened,
               retentionPolicyAutoCreate, ret, beforeClose, authCall, authRaced>>

storeVars == <<store, member, waiter>>

\* what the operations of one caller at a time leave alone
sideVars == <<storeVars, creators, reader, locks, opener>>

remoteVars == <<remoteCacheData, remoteAuthCache, changed, remoteClosing, poll,
                call, raftLog, applied, leader, sideVars>>

vars == <<localVars, remoteVars>>

(***************************************************************************)
(* Password hashing.                                                       *)
(***************************************************************************)
\* bcrypt: a hash carries its own salt, so two hashes of one password differ
GenerateFromPassword(password, bsalt) == [pw |-> password, bsalt |-> bsalt]

CompareHashAndPassword(hash, password) == hash.pw = password

\* SHA-256(salt || password)
hashWithSalt(salt, password) == <<"sha256", salt, password>>

\* a fresh random salt and the salted hash of password
saltedHash(salt, password) == [salt |-> salt, hash |-> hashWithSalt(salt, password)]

(***************************************************************************)
(* Data: the metadata document and the methods the clients call on it.     *)
(***************************************************************************)
ClusterIDs == 1..MaxClusterID

NewData(clusterID) ==
    [ClusterID |-> clusterID, Index |-> 1, Databases |-> <<>>, Users |-> <<>>]

Clone(data) == data

MarshalBinary(data) == [pb |-> data]

UnmarshalBinary(bytes) == bytes.pb

user(data, name) ==
    LET hit == {i \in 1..Len(data.Users) : data.Users[i].Name = name}
    IN  IF hit = {} THEN Nil
        ELSE data.Users[CHOOSE i \in hit : \A j \in hit : i <= j]

Database(data, name) ==
    LET hit == {i \in 1..Len(data.Databases) : data.Databases[i].Name = name}
    IN  IF hit = {} THEN Nil
        ELSE data.Databases[CHOOSE i \in hit : \A j \in hit : i <= j]

DefaultRetentionPolicyInfo ==
    [Name |-> "autogen", Duration |-> 0, ReplicaN |-> 1, ShardGroups |-> <<>>]

DataCreateDatabase(data, name) ==
    IF Database(data, name) # Nil
    THEN [err |-> "nil", data |-> data]
    ELSE [err |-> "nil",
          data |-> [data EXCEPT !.Databases =
                      Append(@, [Name |-> name, DefaultRetentionPolicy |-> "",
                                 RetentionPolicies |-> <<>>])]]

DataDropDatabase(data, name) ==
    IF Database(data, name) = Nil
    THEN [err |-> "ErrDatabaseNotFound", data |-> data]
    ELSE [err |-> "nil",
          data |-> [data EXCEPT !.Databases = SelectSeq(@, LAMBDA d : d.Name # name)]]

DataCreateRetentionPolicy(data, database, rpi, makeDefault) ==
    LET di == Database(data, database)
        same == IF di = Nil THEN {}
                ELSE {i \in 1..Len(di.RetentionPolicies) :
                        di.RetentionPolicies[i].Name = rpi.Name}
        add(d) == IF d.Name # database THEN d
                  ELSE [d EXCEPT !.RetentionPolicies = Append(@, rpi),
                                 !.DefaultRetentionPolicy =
                                     IF makeDefault THEN rpi.Name ELSE @]
    IN  IF di = Nil THEN [err |-> "ErrDatabaseNotFound", data |-> data]
        ELSE IF same # {}
        THEN IF \E i \in same :
                   /\ di.RetentionPolicies[i].Duration = rpi.Duration
                   /\ di.RetentionPolicies[i].ReplicaN = rpi.ReplicaN
             THEN [err |-> "nil", data |-> data]
             ELSE [err |-> "ErrRetentionPolicyExists", data |-> data]
        ELSE [err |-> "nil",
              data |-> [data EXCEPT !.Databases =
                          [i \in 1..Len(@) |-> add(@[i])]]]

DataCreateUser(data, name, hash, admin) ==
    LET u == user(data, name)
    IN  IF u # Nil
        THEN IF u.Hash = hash /\ u.Admin = admin
             THEN [err |-> "nil", data |-> data]
             ELSE [err |-> "ErrUserExists", data |-> data]
        ELSE [err |-> "nil",
              data |-> [data EXCEPT !.Users =
                          Append(@, [Name |-> name, Hash |-> hash, Admin |-> admin])]]

DataUpdateUser(data, name, hash) ==
    IF user(data, name) = Nil
    THEN [err |-> "ErrUserNotFound", data |-> data]
    ELSE [err |-> "nil",
          data |-> [data EXCEPT !.Users =
                      [i \in 1..Len(@) |->
                          IF @[i].Name = name THEN [@[i] EXCEPT !.Hash = hash]
                          ELSE @[i]]]]

DataDropUser(data, name) ==
    IF user(data, name) = Nil
    THEN [err |-> "ErrUserNotFound", data |-> data]
    ELSE [err |-> "nil",
          data |-> [data EXCEPT !.Users = SelectSeq(@, LAMBDA u : u.Name # name)]]

(***************************************************************************)
(* Data: retention policies and shard groups.  Times are nanoseconds; the  *)
(* zero time is 0.                                                         *)
(***************************************************************************)
\* the ShardGroupDuration of the retention policies explored
ShardGroupDurations == {2, 4}

Deleted(g) == g.DeletedAt # 0

Contains(g, t) == g.StartTime <= t /\ t < g.EndTime

\* time.Truncate: t rounded down to a multiple of d
Truncate(t, d) == t - (t % d)

RetentionPolicy(data, database, name) ==
    LET di == Database(data, database)
        hit == IF di = Nil THEN {}
               ELSE {j \in 1..Len(di.RetentionPolicies) :
                       di.RetentionPolicies[j].Name = name}
    IN  IF hit = {} THEN Nil
        ELSE di.RetentionPolicies[CHOOSE j \in hit : \A k \in hit : j <= k]

\* RetentionPolicyInfo.ShardGroupByTimestamp: the first live group holding t
rpiShardGroupByTimestamp(rpi, t) ==
    LET hit == {i \in 1..Len(rpi.ShardGroups) :
                  Contains(rpi.ShardGroups[i], t) /\ ~Deleted(rpi.ShardGroups[i])}
    IN  IF hit = {} THEN Nil
        ELSE rpi.ShardGroups[CHOOSE i \in hit : \A j \in hit : i <= j]

ShardGroupByTimestamp(data, database, policy, t) ==
    LET rpi == RetentionPolicy(data, database, policy)
    IN  IF rpi = Nil THEN Nil ELSE rpiShardGroupByTimestamp(rpi, t)

\* the groups kept sorted by StartTime, a new group after its equals
insertShardGroup(groups, sgi) ==
    SelectSeq(groups, LAMBDA g : g.StartTime <= sgi.StartTime)
      \o <<sgi>> \o SelectSeq(groups, LAMBDA g : g.StartTime > sgi.StartTime)

DataCreateShardGroup(data, database, policy, timestamp) ==
    LET rpi == RetentionPolicy(data, database, policy)
        start == Truncate(timestamp, rpi.ShardGroupDuration)
        sgi == [ID |-> data.MaxShardGroupID + 1, StartTime |-> start,
                EndTime |-> start + rpi.ShardGroupDuration, DeletedAt |-> 0]
        addrp(r) == IF r.Name # policy THEN r
                    ELSE [r EXCEPT !.ShardGroups = insertShardGroup(@, sgi)]
        adddb(d) == IF d.Name # database THEN d
                    ELSE [d EXCEPT !.RetentionPolicies =
                            [j \in 1..Len(@) |-> addrp(@[j])]]
    IN  IF rpi = Nil THEN [err |-> "ErrRetentionPolicyNotFound", data |-> data]
        ELSE IF rpiShardGroupByTimestamp(rpi, timestamp) # Nil
        THEN [err |-> "ErrShardGroupExists", data |-> data]
        ELSE [err |-> "nil",
              data |-> [data EXCEPT !.MaxShardGroupID = @ + 1,
                                    !.Databases = [i \in 1..Len(@) |-> adddb(@[i])]]]

(***************************************************************************)
(* RetentionPolicySpec.  A nil *time.Duration is <<>>, a set one is <<d>>.  *)
(***************************************************************************)
RetentionPolicyNames == {"autogen", "rp1"}

RetentionPolicySpecs ==
    [Name : RetentionPolicyNames,
     Duration : {<<>>} \cup {<<d>> : d \in 0..(MinRetentionPolicyDuration + 1)},
     ReplicaN : {1, 2}]

NewRetentionPolicyInfo(spec) ==
    [Name |-> spec.Name,
     Duration |-> IF spec.Duration = <<>> THEN 0 ELSE spec.Duration[1],
     ReplicaN |-> spec.ReplicaN, ShardGroups |-> <<>>]

Matches(spec, rpi) ==
    /\ rpi # Nil
    /\ spec.Name = rpi.Name
    /\ spec.Duration = <<>> \/ spec.Duration[1] = rpi.Duration
    /\ spec.ReplicaN = rpi.ReplicaN

\* spec.Duration != nil && *spec.Duration < MinRetentionPolicyDuration &&
\* *spec.Duration != 0
durationTooLow(spec) ==
    /\ spec.Duration # <<>>
    /\ spec.Duration[1] < MinRetentionPolicyDuration
    /\ spec.Duration[1] # 0

(***************************************************************************)
(* Client: persistence.                                                    *)
(***************************************************************************)
\* snapshot writes meta.dbtmp and renames it; a failure leaves meta.db as it was
snapshot(data, ioOk) ==
    IF ioOk THEN [err |-> "nil", metaDb |-> MarshalBinary(data)]
    ELSE [err |-> "io", metaDb |-> metaDb]

\* commit without data.Index++
commitKeepsIndex(data, ioOk) ==
    LET s == snapshot(data, ioOk)
    IN  IF s.err # "nil"
        THEN [err |-> s.err, cacheData |-> cacheData, metaDb |-> s.metaDb,
              closed |-> FALSE]
        ELSE [err |-> "nil", cacheData |-> data, metaDb |-> s.metaDb,
              closed |-> TRUE]

\* commit that swaps c.cacheData in before it knows the snapshot was written
commitSwapsFirst(data, ioOk) ==
    LET d == [data EXCEPT !.Index = @ + 1]
        s == snapshot(d, ioOk)
    IN  [err |-> s.err, cacheData |-> d, metaDb |-> s.metaDb,
         closed |-> (s.err = "nil")]

\* commit that swaps c.cacheData in and leaves c.changed as it is
commitKeepsChanged(data, ioOk) ==
    LET d == [data EXCEPT !.Index = @ + 1]
        s == snapshot(d, ioOk)
    IN  [err |-> s.err, cacheData |-> IF s.err = "nil" THEN d ELSE cacheData,
         metaDb |-> s.metaDb, closed |-> FALSE]

\* commit: the outcome of committing data on the current client; closed tells
\* whether c.changed was closed and replaced
commit(data, ioOk) ==
    LET d == [data EXCEPT !.Index = @ + 1]
        s == snapshot(d, ioOk)
    IN  IF s.err # "nil"
        THEN [err |-> s.err, cacheData |-> cacheData, metaDb |-> s.metaDb,
              closed |-> FALSE]
        ELSE [err |-> "nil", cacheData |-> d, metaDb |-> s.metaDb,
              closed |-> TRUE]

\* an object that is none of the live ones: what Clone and &Data{} return
newObj == (cacheObj + 1) % (MaxObj + 1)

\* the object c.cacheData points to after commit: the clone it was handed when
\* it got as far as c.cacheData = data, the object it pointed to otherwise
installed(r) == IF r.closed THEN newObj ELSE cacheObj

\* the channel the caller of WaitForDataChanged holds, after commit: closed
\* when commit got as far as close(c.changed) while it was c.changed ("open");
\* c.changed is another channel from then on
notified(r) == IF r.closed /\ watched = "open" THEN "closed" ELSE watched

\* an early return: nothing is committed
keep(err) == [err |-> err, cacheData |-> cacheData, metaDb |-> metaDb,
              closed |-> FALSE]

\* Load: meta.db read into c.cacheData, in place
Load(ioOk) ==
    IF metaDb = Nil THEN [err |-> "nil", cacheData |-> cacheData]
    ELSE IF ~ioOk THEN [err |-> "io", cacheData |-> cacheData]
    ELSE [err |-> "nil", cacheData |-> UnmarshalBinary(metaDb)]


(***************************************************************************)
(* Client: the methods that hold c.mu from entry to return.                *)
(***************************************************************************)
\* the caller holds no earlier result and can take the lock
Callable == mu = "free" /\ ret = Nil

\* Unlock and return: r is the outcome, cache the authCache left behind
Returns(op, arg, r, cache) ==
    /\ cacheData' = r.cacheData
    /\ cacheObj' = installed(r)
    /\ watched' = notified(r)
    /\ metaDb' = r.metaDb
    /\ authCache' = cache
    /\ ret' = [op |-> op, arg |-> arg, err |-> r.err]
    /\ authRaced' = (\/ authRaced
                     \/ /\ authCall.pc # "idle"
                        /\ (r.cacheData # cacheData \/ cache # authCache))
    /\ UNCHANGED <<remoteVars, mu, closing, opened, retentionPolicyAutoCreate, beforeClose,
                   authCall>>

\* commit runs only while the Index it writes stays within the model's bound
InBound(data) == data.Index < MaxIndex

\* CreateDatabase without the early return for a database that exists
CreateDatabaseAlwaysCommits(name, ioOk) ==
    /\ opened /\ Callable /\ InBound(cacheData)
    /\ LET r1 == DataCreateDatabase(Clone(cacheData), name)
           r == IF r1.err # "nil" THEN keep(r1.err) ELSE commit(r1.data, ioOk)
       IN  Returns("CreateDatabase", name, r, authCache)

\* CreateDatabase that answers an existing database with an error
CreateDatabaseRejectsExisting(name, ioOk) ==
    /\ opened /\ Callable /\ InBound(cacheData)
    /\ LET r1 == DataCreateDatabase(Clone(cacheData), name)
           r == IF Database(cacheData, name) # Nil THEN keep("ErrDatabaseExists")
                ELSE IF r1.err # "nil" THEN keep(r1.err)
                ELSE commit(r1.data, ioOk)
       IN  Returns("CreateDatabase", name, r, authCache)

CreateDatabase(name, ioOk) ==
    /\ opened /\ Callable /\ InBound(cacheData)
    /\ LET data == Clone(cacheData)
           r1 == DataCreateDatabase(data, name)
           r2 == IF retentionPolicyAutoCreate
                 THEN DataCreateRetentionPolicy(r1.data, name,
                                                DefaultRetentionPolicyInfo, TRUE)
                 ELSE r1
           r == IF Database(data, name) # Nil THEN keep("nil")
                ELSE IF r1.err # "nil" THEN keep(r1.err)
                ELSE IF r2.err # "nil" THEN keep(r2.err)
                ELSE commit(r2.data, ioOk)
       IN  Returns("CreateDatabase", name, r, authCache)

DropDatabase(name, ioOk) ==
    /\ opened /\ Callable /\ InBound(cacheData)
    /\ LET data == Clone(cacheData)
           r1 == DataDropDatabase(data, name)
           r == IF r1.err # "nil" THEN keep(r1.err) ELSE commit(r1.data, ioOk)
       IN  Returns("DropDatabase", name, r, authCache)

CreateUser(name, password, admin, bsalt, ioOk) ==
    /\ opened /\ Callable /\ InBound(cacheData)
    /\ LET data == Clone(cacheData)
           u == user(data, name)
           hash == GenerateFromPassword(password, bsalt)
           r1 == DataCreateUser(data, name, hash, admin)
           r == IF u # Nil
                THEN IF ~CompareHashAndPassword(u.Hash, password) \/ u.Admin # admin
                     THEN keep("ErrUserExists")
                     ELSE keep("nil")
                ELSE IF r1.err # "nil" THEN keep(r1.err)
                ELSE commit(r1.data, ioOk)
       IN  Returns("CreateUser", name, r, authCache)

UpdateUser(name, password, bsalt, ioOk) ==
    /\ opened /\ Callable /\ InBound(cacheData)
    /\ LET data == Clone(cacheData)
           hash == GenerateFromPassword(password, bsalt)
           r1 == DataUpdateUser(data, name, hash)
       IN  IF r1.err # "nil"
           THEN Returns("UpdateUser", name, keep(r1.err), authCache)
           ELSE Returns("UpdateUser", name, commit(r1.data, ioOk),
                        [authCache EXCEPT ![name] = Nil])

DropUser(name, ioOk) ==
    /\ opened /\ Callable /\ InBound(cacheData)
    /\ LET data == Clone(cacheData)
           r1 == DataDropUser(data, name)
           r == IF r1.err # "nil" THEN keep(r1.err) ELSE commit(r1.data, ioOk)
       IN  Returns("DropUser", name, r, authCache)

\* the Data values a caller hands to SetData
SetDataArgs ==
    [ClusterID : ClusterIDs,
     Index : 0..(MaxIndex - 1),
     Databases : {<<>>,
                  <<[Name |-> "db0", DefaultRetentionPolicy |-> "",
                     RetentionPolicies |-> <<>>]>>},
     Users : {<<>>,
              <<[Name |-> "u1", Hash |-> GenerateFromPassword("p1", 1),
                 Admin |-> FALSE]>>}]

\* the Data object handed to commit, as commit leaves it: data.Index++ is in place
committing(data) == [data EXCEPT !.Index = @ + 1]

\* SetData that commits the caller's object itself instead of a clone of it
SetDataCommitsArgument(data, ioOk) ==
    /\ opened /\ Callable
    /\ LET r == commit(data, ioOk)
       IN  /\ cacheData' = r.cacheData
           /\ cacheObj' = installed(r)
           /\ watched' = notified(r)
           /\ metaDb' = r.metaDb
           /\ ret' = [op |-> "SetData", arg |-> data.Index, err |-> r.err,
                      given |-> data, passed |-> committing(data)]
           /\ mu' = IF r.err # "nil" THEN "held" ELSE "free"
           /\ authRaced' = (authRaced \/
                              (authCall.pc # "idle" /\ r.cacheData # cacheData))
    /\ UNCHANGED <<remoteVars, authCache, closing, opened, retentionPolicyAutoCreate,
                   beforeClose, authCall>>

\* SetData unlocks only on the success path; ret.given is the argument as the
\* caller passed it, ret.passed the same object once SetData has returned
SetData(data, ioOk) ==
    /\ opened /\ Callable
    /\ LET d == Clone(data)
           r == commit(d, ioOk)
       IN  /\ cacheData' = r.cacheData
           /\ cacheObj' = installed(r)
           /\ watched' = notified(r)
           /\ metaDb' = r.metaDb
           /\ ret' = [op |-> "SetData", arg |-> data.Index, err |-> r.err,
                      given |-> data, passed |-> data]
           /\ mu' = IF r.err # "nil" THEN "held" ELSE "free"
           /\ authRaced' = (authRaced \/
                              (authCall.pc # "idle" /\ r.cacheData # cacheData))
    /\ UNCHANGED <<remoteVars, authCache, closing, opened, retentionPolicyAutoCreate,
                   beforeClose, authCall>>

\* Data: a clone of c.cacheData
Data == Clone(cacheData)

(***************************************************************************)
(* Client: retention policies.                                             *)
(***************************************************************************)
CreateDatabaseWithRetentionPolicy(name, spec, ioOk) ==
    /\ opened /\ Callable /\ InBound(cacheData)
    /\ LET data == Clone(cacheData)
           r1 == IF Database(data, name) = Nil THEN DataCreateDatabase(data, name)
                 ELSE [err |-> "nil", data |-> data]
           db == Database(r1.data, name)
           rpi == NewRetentionPolicyInfo(spec)
           r2 == IF Len(db.RetentionPolicies) = 0
                 THEN DataCreateRetentionPolicy(r1.data, name, rpi, TRUE)
                 ELSE [err |-> "nil", data |-> r1.data]
           r == IF durationTooLow(spec) THEN keep("ErrRetentionPolicyDurationTooLow")
                ELSE IF r1.err # "nil" THEN keep(r1.err)
                ELSE IF r2.err # "nil" THEN keep(r2.err)
                ELSE IF /\ Len(db.RetentionPolicies) # 0
                        /\ ~Matches(spec, RetentionPolicy(r1.data, name, rpi.Name))
                THEN keep("ErrRetentionPolicyConflict")
                ELSE IF Database(r2.data, name).DefaultRetentionPolicy # rpi.Name
                THEN keep("ErrRetentionPolicyConflict")
                ELSE commit(r2.data, ioOk)
       IN  Returns("CreateDatabaseWithRetentionPolicy",
                   [database |-> name, spec |-> spec, makeDefault |-> TRUE],
                   r, authCache)

CreateRetentionPolicy(database, spec, makeDefault, ioOk) ==
    /\ opened /\ Callable /\ InBound(cacheData)
    /\ LET data == Clone(cacheData)
           rp == NewRetentionPolicyInfo(spec)
           r1 == DataCreateRetentionPolicy(data, database, rp, makeDefault)
           r == IF durationTooLow(spec) THEN keep("ErrRetentionPolicyDurationTooLow")
                ELSE IF r1.err # "nil" THEN keep(r1.err)
                ELSE commit(r1.data, ioOk)
       IN  Returns("CreateRetentionPolicy",
                   [database |-> database, spec |-> spec, makeDefault |-> makeDefault],
                   r, authCache)

(***************************************************************************)
(* Client: shard groups.                                                   *)
(***************************************************************************)
createShardGroup(data, database, rp, timestamp) ==
    LET r == DataCreateShardGroup(data, database, rp, timestamp)
    IN  IF ShardGroupByTimestamp(data, database, rp, timestamp) # Nil
        THEN [err |-> "ErrShardGroupExists", data |-> data, sgi |-> Nil]
        ELSE IF r.err # "nil" THEN [err |-> r.err, data |-> data, sgi |-> Nil]
        ELSE [err |-> "nil", data |-> r.data,
              sgi |-> ShardGroupByTimestamp(r.data, database, rp, timestamp)]

\* the callers of CreateShardGroup, none of them inside a call
Creators == 1..NumCreators

creatorIdle == [pc |-> "idle", arg |-> <<>>, sgi |-> Nil, err |-> "nil",
                locked |-> FALSE, committed |-> FALSE]

CreatorsNew == creators = [c \in Creators |-> creatorIdle]

\* what a step of CreateShardGroup leaves alone
creatorFrame == <<remoteCacheData, remoteAuthCache, changed, remoteClosing, poll,
                  call, raftLog, applied, leader, storeVars, reader, locks, opener,
                  authCache, mu,
                  closing, opened, retentionPolicyAutoCreate, ret, beforeClose,
                  authCall, authRaced>>

\* CreateShardGroup: the check under the read lock
CreateShardGroupCheck(c, database, rp, timestamp) ==
    /\ opened /\ mu = "free" /\ InBound(cacheData)
    /\ creators[c].pc = "idle"
    /\ LET rg == ShardGroupByTimestamp(cacheData, database, rp, timestamp)
       IN  creators' = [creators EXCEPT ![c] =
               [pc |-> IF rg # Nil THEN "done" ELSE "lock",
                arg |-> <<database, rp, timestamp>>, sgi |-> rg, err |-> "nil",
                locked |-> FALSE, committed |-> FALSE]]
    /\ UNCHANGED <<cacheData, cacheObj, watched, metaDb, creatorFrame>>

\* the caller returns from the section under the write lock
createShardGroupReturns(c, sgi, r) ==
    /\ creators' = [creators EXCEPT ![c] =
           [@ EXCEPT !.pc = "done", !.sgi = sgi, !.err = r.err, !.locked = TRUE,
                     !.committed = r.closed]]
    /\ cacheData' = r.cacheData
    /\ cacheObj' = installed(r)
    /\ watched' = notified(r)
    /\ metaDb' = r.metaDb

\* CreateShardGroup: the section under the write lock
CreateShardGroupWithoutSecondCheck(c, ioOk) ==
    /\ creators[c].pc = "lock" /\ mu = "free" /\ InBound(cacheData)
    /\ LET database == creators[c].arg[1]
           rp == creators[c].arg[2]
           timestamp == creators[c].arg[3]
           data == Clone(cacheData)
           r == createShardGroup(data, database, rp, timestamp)
       IN  IF r.err # "nil" THEN createShardGroupReturns(c, Nil, keep(r.err))
           ELSE \E k \in {commit(r.data, ioOk)} :
                   createShardGroupReturns(c, IF k.err = "nil" THEN r.sgi ELSE Nil, k)
    /\ UNCHANGED creatorFrame

CreateShardGroupLocked(c, ioOk) ==
    /\ creators[c].pc = "lock" /\ mu = "free" /\ InBound(cacheData)
    /\ LET database == creators[c].arg[1]
           rp == creators[c].arg[2]
           timestamp == creators[c].arg[3]
           data == Clone(cacheData)
           rg == ShardGroupByTimestamp(data, database, rp, timestamp)
           r == createShardGroup(data, database, rp, timestamp)
       IN  IF rg # Nil THEN createShardGroupReturns(c, rg, keep("nil"))
           ELSE IF r.err # "nil" THEN createShardGroupReturns(c, Nil, keep(r.err))
           ELSE \E k \in {commit(r.data, ioOk)} :
                   createShardGroupReturns(c, IF k.err = "nil" THEN r.sgi ELSE Nil, k)
    /\ UNCHANGED creatorFrame

\* the callers have taken their results
CreateShardGroupDone ==
    /\ \E c \in Creators : creators[c].pc = "done"
    /\ \A c \in Creators : creators[c].pc \in {"idle", "done"}
    /\ creators' = [c \in Creators |-> creatorIdle]
    /\ UNCHANGED <<cacheData, cacheObj, watched, metaDb, creatorFrame>>

\* the <<database, retention policy>> names in the order the two loops visit them
RECURSIVE policies(_)
policies(databases) ==
    IF databases = <<>> THEN <<>>
    ELSE [j \in 1..Len(databases[1].RetentionPolicies) |->
            <<databases[1].Name, databases[1].RetentionPolicies[j].Name>>]
         \o policies(Tail(databases))

\* the last group of rp is live and ends inside (from, to)
lastGroupEndsWithin(rp, from, to) ==
    /\ Len(rp.ShardGroups) # 0
    /\ LET g == rp.ShardGroups[Len(rp.ShardGroups)]
       IN  ~Deleted(g) /\ g.EndTime < to /\ g.EndTime > from

\* the loops that also take a last group ending exactly at to
RECURSIVE precreateLoopUpToTo(_, _, _, _)
precreateLoopUpToTo(acc, todo, from, to) ==
    IF todo = <<>> THEN acc
    ELSE LET database == todo[1][1]
             rp == RetentionPolicy(acc.data, database, todo[1][2])
             g == rp.ShardGroups[Len(rp.ShardGroups)]
             nextShardGroupTime == g.EndTime + 1
             r == createShardGroup(acc.data, database, rp.Name, nextShardGroupTime)
             step == IF ~lastGroupEndsWithin(rp, from, to + 1) THEN acc
                     ELSE IF ShardGroupByTimestamp(acc.data, database, rp.Name,
                                                   nextShardGroupTime) # Nil
                     THEN acc
                     ELSE IF r.err # "nil" THEN acc
                     ELSE [data |-> r.data, changed |-> TRUE]
         IN  precreateLoopUpToTo(step, Tail(todo), from, to)

\* the two loops of PrecreateShardGroups over the policies still to visit
RECURSIVE precreateLoop(_, _, _, _)
precreateLoop(acc, todo, from, to) ==
    IF todo = <<>> THEN acc
    ELSE LET database == todo[1][1]
             rp == RetentionPolicy(acc.data, database, todo[1][2])
             g == rp.ShardGroups[Len(rp.ShardGroups)]
             nextShardGroupTime == g.EndTime + 1
             r == createShardGroup(acc.data, database, rp.Name, nextShardGroupTime)
             step == IF ~lastGroupEndsWithin(rp, from, to) THEN acc
                     ELSE IF ShardGroupByTimestamp(acc.data, database, rp.Name,
                                                   nextShardGroupTime) # Nil
                     THEN acc
                     ELSE IF r.err # "nil" THEN acc
                     ELSE [data |-> r.data, changed |-> TRUE]
         IN  precreateLoop(step, Tail(todo), from, to)

\* PrecreateShardGroups that commits whether or not a group was created
precreateAlwaysCommits(from, to, ioOk) ==
    LET data == Clone(cacheData)
        l == precreateLoop([data |-> data, changed |-> FALSE],
                           policies(data.Databases), from, to)
    IN  commit(l.data, ioOk)

\* the body of PrecreateShardGroups, from Lock to Unlock
precreate(from, to, ioOk) ==
    LET data == Clone(cacheData)
        l == precreateLoop([data |-> data, changed |-> FALSE],
                           policies(data.Databases), from, to)
    IN  IF l.changed THEN commit(l.data, ioOk) ELSE keep("nil")

\* what the caller of PrecreateShardGroups holds once it has returned
precreateReturns(from, to, r, again) ==
    /\ cacheData' = r.cacheData
    /\ cacheObj' = installed(r)
    /\ watched' = notified(r)
    /\ metaDb' = r.metaDb
    /\ ret' = [op |-> "PrecreateShardGroups", arg |-> <<from, to>>, err |-> r.err,
               closed |-> r.closed, again |-> again]
    /\ authRaced' = (authRaced \/ (authCall.pc # "idle" /\ r.cacheData # cacheData))
    /\ UNCHANGED <<remoteVars, authCache, mu, closing, opened,
                   retentionPolicyAutoCreate, beforeClose, authCall>>

PrecreateShardGroups(from, to, ioOk) ==
    /\ opened /\ Callable /\ InBound(cacheData)
    /\ \E r \in {precreate(from, to, ioOk)} : precreateReturns(from, to, r, FALSE)

\* the caller of a PrecreateShardGroups that returned nil calls it again with
\* the same arguments
PrecreateShardGroupsAgain(ioOk) ==
    /\ opened /\ mu = "free" /\ InBound(cacheData)
    /\ ret # Nil /\ ret.op = "PrecreateShardGroups" /\ ret.err = "nil"
    /\ \E r \in {precreate(ret.arg[1], ret.arg[2], ioOk)} :
          precreateReturns(ret.arg[1], ret.arg[2], r, TRUE)

(***************************************************************************)
(* Client.PruneShardGroups.  Time is counted in weeks; the zero time.Time  *)
(* of a live group is 0.                                                   *)
(***************************************************************************)
\* minus two weeks
ShardGroupDeletedExpiration == -2

\* the groups of one policy that the loop appends to remainingShardGroups
remainingDeletedAfter(groups, expiration) ==
    SelectSeq(groups, LAMBDA sgi : sgi.DeletedAt = 0 \/ expiration < sgi.DeletedAt)

remainingShardGroups(groups, expiration) ==
    SelectSeq(groups, LAMBDA sgi : sgi.DeletedAt = 0 \/ ~(expiration > sgi.DeletedAt))

\* data with the groups of every policy of every database replaced
prunedDatabases(databases, expiration) ==
    [i \in DOMAIN databases |->
        [databases[i] EXCEPT !.RetentionPolicies =
            [j \in DOMAIN databases[i].RetentionPolicies |->
                [databases[i].RetentionPolicies[j] EXCEPT !.ShardGroups =
                    remainingShardGroups(@, expiration)]]]]

\* PruneShardGroups at time now: commit if a group was left out
pruneShardGroups(now, ioOk) ==
    LET expiration == now + ShardGroupDeletedExpiration
        clone == Clone(cacheData)
        data == [clone EXCEPT !.Databases = prunedDatabases(@, expiration)]
        wasChanged == data.Databases # clone.Databases
    IN  IF wasChanged THEN commit(data, ioOk) ELSE keep("nil")

PruneShardGroups(now, ioOk) ==
    /\ opened /\ Callable /\ InBound(cacheData)
    /\ \E r \in {pruneShardGroups(now, ioOk)} :
           Returns("PruneShardGroups", now, r, authCache)

(***************************************************************************)
(* Client: construction, Open, Close.                                      *)
(***************************************************************************)
idle == [pc |-> "idle"]

Open(loadOk, ioOk) ==
    /\ ~opened /\ Callable
    /\ LET l == Load(loadOk)
           s == snapshot(l.cacheData, ioOk)
           err == IF l.err # "nil" THEN l.err
                  ELSE IF l.cacheData.Index = 1 THEN s.err
                  ELSE "nil"
       IN  /\ cacheData' = l.cacheData
           /\ cacheObj' = cacheObj
           /\ watched' = watched
           /\ metaDb' = IF l.err = "nil" /\ l.cacheData.Index = 1
                        THEN s.metaDb ELSE metaDb
           /\ opened' = (err = "nil")
           /\ beforeClose' = IF err = "nil" THEN Nil ELSE beforeClose
           /\ ret' = [op |-> "Open", arg |-> "", err |-> err]
    /\ UNCHANGED <<remoteVars, authCache, mu, closing, retentionPolicyAutoCreate, authCall,
                   authRaced>>

Close ==
    /\ Callable /\ ~closing
    /\ closing' = TRUE
    /\ ret' = [op |-> "Close", arg |-> "", err |-> "nil"]
    /\ UNCHANGED <<remoteVars, cacheData, cacheObj, watched, authCache, metaDb, mu, opened,
                   retentionPolicyAutoCreate, beforeClose, authCall, authRaced>>

\* a fresh client on the directory of the one that was closed
NewClient(clusterID) ==
    /\ closing /\ ret = Nil
    /\ cacheData' = NewData(clusterID)
    /\ cacheObj' = newObj
    /\ watched' = "none"
    /\ authCache' = [n \in UserNames |-> Nil]
    /\ mu' = "free"
    /\ closing' = FALSE
    /\ opened' = FALSE
    /\ beforeClose' = IF opened THEN cacheData ELSE beforeClose
    /\ authCall' = idle
    /\ authRaced' = FALSE
    /\ UNCHANGED <<remoteVars, metaDb, retentionPolicyAutoCreate, ret>>

\* the caller reads the result of its call
Return ==
    /\ ret # Nil
    /\ ret' = Nil
    /\ UNCHANGED <<remoteVars, cacheData, cacheObj, watched, authCache, metaDb, mu, closing, opened,
                   retentionPolicyAutoCreate, beforeClose, authCall, authRaced>>

\* WaitForDataChanged: c.changed, read under the read lock
WaitForDataChanged ==
    /\ mu = "free" /\ watched # "open"
    /\ watched' = "open"
    /\ UNCHANGED <<remoteVars, cacheData, cacheObj, authCache, metaDb, mu, closing,
                   opened, retentionPolicyAutoCreate, ret, beforeClose, authCall,
                   authRaced>>

\* Load called by a user of the package: it takes no lock and decodes meta.db
\* into the object c.cacheData points to
LoadCall(ioOk) ==
    /\ ret = Nil
    /\ LET l == Load(ioOk)
       IN  /\ cacheData' = l.cacheData
           /\ ret' = [op |-> "Load", arg |-> "", err |-> l.err]
    /\ UNCHANGED <<remoteVars, cacheObj, watched, authCache, metaDb, mu, closing, opened,
                   retentionPolicyAutoCreate, beforeClose, authCall, authRaced>>

(***************************************************************************)
(* Client.Data, on a goroutine of its own: RLock, Clone, RUnlock.  Clone   *)
(* copies the object field by field.                                       *)
(***************************************************************************)
readerIdle == [pc |-> "idle", old |-> Nil, seen |-> Nil, d |-> Nil]

ReaderNew == reader = readerIdle

\* newStore: not opened, s.closing open, nobody in store.open
openerIdle == [pc |-> "idle", n |-> Nil, err |-> "nil", opened |-> FALSE,
               closing |-> FALSE, shut |-> "no", bound |-> FALSE]

OpenerNew == opener = openerIdle

\* nobody holds c.mu of the RemoteClient or s.mu of the store; no caller is
\* in RemoteClient.CreateUser
LocksNew == locks = [cmu |-> "free", smu |-> "free",
                     user |-> [pc |-> "idle", held |-> "", data |-> Nil]]

\* the goroutine holds the read lock
RLocked == reader.pc \in {"rlocked", "half"}

readerFrame == <<localVars, remoteCacheData, remoteAuthCache, changed, remoteClosing,
                 poll, call, raftLog, applied, leader, storeVars, creators, locks,
                 opener>>

DataRLock ==
    /\ reader.pc = "idle" /\ mu = "free"
    /\ reader' = [readerIdle EXCEPT !.pc = "rlocked", !.old = cacheData]
    /\ UNCHANGED readerFrame

\* Clone copies the scalars and the databases
DataCloneDatabases ==
    /\ reader.pc = "rlocked"
    /\ reader' = [reader EXCEPT !.pc = "half",
                                !.seen = [cacheData EXCEPT !.Users = <<>>]]
    /\ UNCHANGED readerFrame

\* Clone copies the users; RUnlock; return *d
DataCloneUsers ==
    /\ reader.pc = "half"
    /\ reader' = [reader EXCEPT !.pc = "done",
                                !.d = [reader.seen EXCEPT !.Users = cacheData.Users]]
    /\ UNCHANGED readerFrame

\* the caller has read what Data returned
DataReturn ==
    /\ reader.pc = "done"
    /\ reader' = readerIdle
    /\ UNCHANGED readerFrame

(***************************************************************************)
(* Client.Authenticate, on a goroutine of its own.                         *)
(***************************************************************************)
authFrame == <<cacheData, cacheObj, watched, metaDb, mu, closing, opened, retentionPolicyAutoCreate,
               ret, beforeClose>>

\* first RLock section: find the user
AuthenticateFind(username, password) ==
    /\ opened /\ authCall.pc = "idle" /\ mu = "free"
    /\ LET userInfo == user(cacheData, username)
       IN  authCall' = IF userInfo = Nil
                       THEN [pc |-> "ret", username |-> username,
                             password |-> password, err |-> "ErrUserNotFound"]
                       ELSE [pc |-> "cache", username |-> username,
                             password |-> password, userInfo |-> userInfo]
    /\ authRaced' = FALSE
    /\ UNCHANGED <<remoteVars, authFrame, authCache>>

\* second RLock section: read the cache entry; then, outside the lock, the
\* fast check, the bcrypt check and the fresh salted hash
AuthenticateCache(salt) ==
    /\ authCall.pc = "cache" /\ mu = "free"
    /\ LET au == authCache[authCall.username]
           done(err) == [pc |-> "ret", username |-> authCall.username,
                         password |-> authCall.password, err |-> err]
       IN  authCall' =
             IF au # Nil /\ hashWithSalt(au.salt, authCall.password) = au.hash
             THEN done("nil")
             ELSE IF ~CompareHashAndPassword(authCall.userInfo.Hash,
                                             authCall.password)
             THEN done("ErrAuthenticate")
             ELSE [authCall EXCEPT !.pc = "store"] @@
                  [salted |-> saltedHash(salt, authCall.password)]
    /\ UNCHANGED <<remoteVars, authFrame, authCache, authRaced>>

\* Lock section: write the cache entry
AuthenticateStore ==
    /\ authCall.pc = "store" /\ mu = "free"
    /\ authCache' = [authCache EXCEPT ![authCall.username] =
                       [salt |-> authCall.salted.salt,
                        hash |-> authCall.salted.hash,
                        bhash |-> authCall.userInfo.Hash]]
    /\ authCall' = [pc |-> "ret", username |-> authCall.username,
                    password |-> authCall.password, err |-> "nil"]
    /\ UNCHANGED <<remoteVars, authFrame, authRaced>>

AuthenticateReturn ==
    /\ authCall.pc = "ret"
    /\ authCall' = idle
    /\ UNCHANGED <<remoteVars, authFrame, authCache, authRaced>>

(***************************************************************************)
(* The meta servers: every store applies the committed raft entries in     *)
(* order; the leader appends, a follower may lag behind.                   *)
(***************************************************************************)
metaServers == 1..NumServers

\* store.data of server s
storeData(s) == raftLog[applied[s]]

\* store.afterIndex: the channel it returns is already closed
afterIndex(s, index) == index < storeData(s).Index

DbCommands ==
    {[type |-> t, name |-> n] : t \in {"CreateDatabase", "DropDatabase"},
                                n \in DbNames}

UserCommands ==
    {[type |-> t, name |-> n, hash |-> GenerateFromPassword(p, b)] :
        t \in {"CreateUser", "UpdateUser"}, n \in UserNames, p \in Passwords,
        b \in 1..MaxBcryptSalt}
    \cup {[type |-> "DropUser", name |-> n] : n \in UserNames}

\* the state machine applies a command to a clone of its data
applyCommand(data, cmd) ==
    CASE cmd.type = "CreateDatabase" -> DataCreateDatabase(data, cmd.name)
      [] cmd.type = "DropDatabase" -> DataDropDatabase(data, cmd.name)
      [] cmd.type = "CreateUser" -> DataCreateUser(data, cmd.name, cmd.hash, FALSE)
      [] cmd.type = "UpdateUser" -> DataUpdateUser(data, cmd.name, cmd.hash)
      [] cmd.type = "DropUser" -> DataDropUser(data, cmd.name)
      [] cmd.type = "CreateDatabaseWithRetentionPolicy" ->
             DataCreateRetentionPolicy(DataCreateDatabase(data, cmd.name).data,
                                       cmd.name, cmd.rpi, TRUE)
      [] cmd.type = "CreateRetentionPolicy" ->
             DataCreateRetentionPolicy(data, cmd.database, cmd.rpi, cmd.makeDefault)
      [] cmd.type = "CreateShardGroup" ->
             DataCreateShardGroup(data, cmd.database, cmd.policy, cmd.timestamp)

\* the leader commits cmd: the new Data carries the index of the entry
committed(cmd) ==
    [applyCommand(storeData(leader), cmd).data EXCEPT !.Index = Len(raftLog) + 1]

Commit(cmd) ==
    /\ raftLog' = Append(raftLog, committed(cmd))
    /\ applied' = [applied EXCEPT ![leader] = Len(raftLog) + 1]
    /\ UNCHANGED <<leader, sideVars>>

CanCommit(cmd) ==
    /\ applied[leader] = Len(raftLog)
    /\ Len(raftLog) < MaxRaftIndex
    /\ applyCommand(storeData(leader), cmd).err = "nil"

\* a command of another client of the cluster is committed
otherClientExec(cmd) ==
    /\ CanCommit(cmd)
    /\ Commit(cmd)
    /\ UNCHANGED <<localVars, remoteCacheData, remoteAuthCache, changed,
                   remoteClosing, poll, call>>

\* a follower applies the next committed entry
followerApply(s) ==
    /\ applied[s] < Len(raftLog)
    /\ applied' = [applied EXCEPT ![s] = @ + 1]
    /\ UNCHANGED <<localVars, remoteCacheData, remoteAuthCache, changed,
                   remoteClosing, poll, call, raftLog, leader, sideVars>>

(***************************************************************************)
(* RemoteClient: Open, the snapshot poller, Close.                         *)
(***************************************************************************)
\* &Data{}, the cacheData of NewRemoteClient
EmptyData == [ClusterID |-> 0, Index |-> 0, Databases |-> <<>>, Users |-> <<>>]

serverVars == <<raftLog, applied, leader, sideVars>>

pollFrame == <<localVars, remoteCacheData, remoteAuthCache, changed,
               remoteClosing, call, serverVars>>

\* Open: make the channels and enter retryUntilSnapshot(0)
RemoteOpen ==
    /\ poll.pc = "new"
    /\ changed' = 0
    /\ remoteClosing' = FALSE
    /\ poll' = [poll EXCEPT !.pc = "loop", !.caller = "Open", !.idx = 0,
                            !.currentServer = 0]
    /\ UNCHANGED <<localVars, remoteCacheData, remoteAuthCache, call, serverVars>>

\* retryUntilSnapshot, top of the loop: nil when closed, else pick the server
retryUntilSnapshotLoop ==
    /\ poll.pc = "loop"
    /\ IF remoteClosing
       THEN poll' = [poll EXCEPT !.pc = "done", !.data = Nil]
       ELSE LET cs == IF poll.currentServer >= NumServers THEN 0
                      ELSE poll.currentServer
            IN  poll' = [poll EXCEPT !.pc = "get", !.currentServer = cs,
                                     !.server = cs + 1]
    /\ UNCHANGED pollFrame

\* getSnapshot: the server answers once its Index is above the cursor
getSnapshotOK ==
    /\ poll.pc = "get"
    /\ afterIndex(poll.server, poll.idx)
    /\ poll' = [poll EXCEPT !.pc = "got", !.server = 0,
                            !.data = Clone(storeData(poll.server))]
    /\ UNCHANGED pollFrame

\* getSnapshot fails (no connection, a non-200 answer): sleep, next server
getSnapshotErr ==
    /\ poll.pc = "get"
    /\ poll' = [poll EXCEPT !.pc = "loop", !.server = 0,
                            !.currentServer = @ + 1]
    /\ UNCHANGED pollFrame

\* Open: install the first snapshot and start pollForUpdates
OpenInstall ==
    /\ poll.pc = "got" /\ poll.caller = "Open"
    /\ remoteCacheData' = poll.data
    /\ poll' = [poll EXCEPT !.pc = "start", !.caller = "pollForUpdates",
                            !.data = Nil]
    /\ UNCHANGED <<localVars, remoteAuthCache, changed, remoteClosing, call,
                   serverVars>>

\* the cursor of the previous poll instead of c.index()
staleIndex == poll.idx

\* c.index()
index == remoteCacheData.Index

\* pollForUpdates, top of the loop: retryUntilSnapshot(c.index())
pollForUpdatesStart ==
    /\ poll.pc = "start"
    /\ poll' = [poll EXCEPT !.pc = "loop", !.idx = index, !.currentServer = 0]
    /\ UNCHANGED pollFrame

\* updateAuthCache that keeps the entry of every user still present
updateAuthCacheByName(data, cache) ==
    [n \in UserNames |-> IF user(data, n) # Nil THEN cache[n] ELSE Nil]

\* updateAuthCache: the entries of the users of data whose bhash is their Hash
updateAuthCache(data, cache) ==
    [n \in UserNames |->
        IF /\ user(data, n) # Nil
           /\ cache[n] # Nil
           /\ cache[n].bhash = user(data, n).Hash
        THEN cache[n] ELSE Nil]

\* pollForUpdates that installs the snapshot and leaves c.changed open
pollForUpdatesInstallsQuietly ==
    /\ poll.pc = "got" /\ poll.caller = "pollForUpdates"
    /\ remoteCacheData' = poll.data
    /\ remoteAuthCache' = updateAuthCache(poll.data, remoteAuthCache)
    /\ poll' = [poll EXCEPT !.pc = "start", !.data = Nil]
    /\ UNCHANGED <<localVars, changed, remoteClosing, call, serverVars>>

\* pollForUpdates: install the snapshot, refresh the cache, notify the waiters
pollForUpdatesInstall ==
    /\ poll.pc = "got" /\ poll.caller = "pollForUpdates"
    /\ LET idx == remoteCacheData.Index
           data == poll.data
       IN  /\ remoteCacheData' = data
           /\ remoteAuthCache' = updateAuthCache(data, remoteAuthCache)
           /\ changed' = IF idx < data.Index THEN changed + 1 ELSE changed
    /\ poll' = [poll EXCEPT !.pc = "start", !.data = Nil]
    /\ UNCHANGED <<localVars, remoteClosing, call, serverVars>>

\* Close, called once Open has returned; closing an already closed client
\* changes nothing
RemoteClose ==
    /\ poll.caller = "pollForUpdates"
    /\ remoteClosing' = TRUE
    /\ UNCHANGED <<localVars, remoteCacheData, remoteAuthCache, changed, poll,
                   call, serverVars>>

(***************************************************************************)
(* RemoteClient: a command through retryUntilExec.                         *)
(***************************************************************************)
callIdle ==
    [pc |-> "idle", cmd |-> Nil, tries |-> 0, currentServer |-> 0,
     redirectServer |-> 0, server |-> 0, index |-> 0, err |-> "nil", msg |-> "",
     ch |-> 0]

callFrame == <<localVars, remoteCacheData, remoteAuthCache, changed,
               remoteClosing, poll>>

retryUntilExecStart(cmd) ==
    /\ call.pc = "idle"
    /\ poll.caller = "pollForUpdates"
    /\ call' = [callIdle EXCEPT !.pc = "loop", !.cmd = cmd]
    /\ UNCHANGED <<callFrame, serverVars>>

\* the loop that forgets the redirect target and takes the next configured server
retryUntilExecLoopNextServer ==
    /\ call.pc = "loop"
    /\ IF remoteClosing
       THEN call' = [call EXCEPT !.pc = "done", !.err = "nil"]
       ELSE LET cs == IF call.currentServer >= NumServers THEN 0
                      ELSE call.currentServer
            IN  call' = [call EXCEPT !.pc = "post", !.currentServer = cs,
                                     !.server = cs + 1, !.redirectServer = 0]
    /\ UNCHANGED <<callFrame, serverVars>>

\* top of the loop: return nil when closed, else pick the url
retryUntilExecLoop ==
    /\ call.pc = "loop"
    /\ IF remoteClosing
       THEN call' = [call EXCEPT !.pc = "done", !.err = "nil"]
       ELSE IF call.redirectServer # 0
       THEN call' = [call EXCEPT !.pc = "post", !.server = call.redirectServer,
                                 !.redirectServer = 0]
       ELSE LET cs == IF call.currentServer >= NumServers THEN 0
                      ELSE call.currentServer
            IN  call' = [call EXCEPT !.pc = "post", !.currentServer = cs,
                                     !.server = cs + 1]
    /\ UNCHANGED <<callFrame, serverVars>>

\* the iteration that takes the server that answered 307 as the redirect target
afterExecRedirectsToSender(idx, err, host) ==
    LET c == [call EXCEPT !.tries = @ + 1, !.currentServer = @ + 1,
                          !.server = 0, !.index = idx, !.err = err]
    IN  IF err = "nil" THEN [c EXCEPT !.pc = "wait"]
        ELSE IF c.tries > maxRetries THEN [c EXCEPT !.pc = "done"]
        ELSE IF err = "errRedirect"
        THEN [c EXCEPT !.pc = "loop", !.redirectServer = call.server]
        ELSE IF err = "errCommand" THEN [c EXCEPT !.pc = "done"]
        ELSE [c EXCEPT !.pc = "loop"]

\* the iteration that sleeps and retries after an errCommand
afterExecRetriesErrCommand(idx, err, host) ==
    LET c == [call EXCEPT !.tries = @ + 1, !.currentServer = @ + 1,
                          !.server = 0, !.index = idx, !.err = err]
    IN  IF err = "nil" THEN [c EXCEPT !.pc = "wait"]
        ELSE IF c.tries > maxRetries THEN [c EXCEPT !.pc = "done"]
        ELSE IF err = "errRedirect"
        THEN [c EXCEPT !.pc = "loop", !.redirectServer = host]
        ELSE [c EXCEPT !.pc = "loop"]

\* the rest of the iteration once exec has returned (index, err)
afterExec(idx, err, host) ==
    LET c == [call EXCEPT !.tries = @ + 1, !.currentServer = @ + 1,
                          !.server = 0, !.index = idx, !.err = err]
    IN  IF err = "nil" THEN [c EXCEPT !.pc = "wait"]
        ELSE IF c.tries > maxRetries THEN [c EXCEPT !.pc = "done"]
        ELSE IF err = "errRedirect"
        THEN [c EXCEPT !.pc = "loop", !.redirectServer = host]
        ELSE IF err = "errCommand" THEN [c EXCEPT !.pc = "done"]
        ELSE [c EXCEPT !.pc = "loop"]

\* exec: the leader commits the command and answers 200 with its index
execApplied ==
    /\ call.pc = "post" /\ call.server = leader
    /\ CanCommit(call.cmd)
    /\ Commit(call.cmd)
    /\ call' = afterExec(Len(raftLog) + 1, "nil", 0)
    /\ UNCHANGED callFrame

\* exec: the leader answers 200 with the error of the command
execRejected ==
    /\ call.pc = "post" /\ call.server = leader
    /\ applyCommand(storeData(leader), call.cmd).err # "nil"
    /\ call' = [afterExec(0, "errCommand", 0) EXCEPT
                   !.msg = applyCommand(storeData(leader), call.cmd).err]
    /\ UNCHANGED <<callFrame, serverVars>>

\* exec: a follower answers 307 with the leader as Location
execRedirect ==
    /\ call.pc = "post" /\ call.server # leader
    /\ call' = afterExec(0, "errRedirect", leader)
    /\ UNCHANGED <<callFrame, serverVars>>

\* exec: the POST fails, or the answer is neither 200 nor 307
execFailed ==
    /\ call.pc = "post"
    /\ call' = afterExec(0, "http", 0)
    /\ UNCHANGED <<callFrame, serverVars>>

\* raft elects a server that has applied every committed entry
leaderElected(s) ==
    /\ s # leader
    /\ applied[s] = Len(raftLog)
    /\ leader' = s
    /\ UNCHANGED <<localVars, remoteCacheData, remoteAuthCache, changed,
                   remoteClosing, poll, call, raftLog, applied, sideVars>>

\* waitForIndex that returns without looking at the cache
waitForIndexSkipped(c) == [c EXCEPT !.pc = "done"]

\* waitForIndex, one pass of its loop: return, or take c.changed to wait on
waitForIndex(c) ==
    IF remoteCacheData.Index >= c.index THEN [c EXCEPT !.pc = "done"]
    ELSE [c EXCEPT !.pc = "blocked", !.ch = changed]

waitForIndexCheck ==
    /\ call.pc = "wait"
    /\ call' = waitForIndex(call)
    /\ UNCHANGED <<callFrame, serverVars>>

\* <-ch returns: the channel taken has been closed
waitForIndexWake ==
    /\ call.pc = "blocked"
    /\ call.ch < changed
    /\ call' = [call EXCEPT !.pc = "wait"]
    /\ UNCHANGED <<callFrame, serverVars>>

\* the caller has the result of retryUntilExec
retryUntilExecReturn ==
    /\ call.pc = "done"
    /\ call' = callIdle
    /\ UNCHANGED <<callFrame, serverVars>>

(***************************************************************************)
(* RemoteClient.Authenticate: the whole method under c.mu.Lock.            *)
(***************************************************************************)
RemoteAuthenticate(username, password, salt) ==
    LET userInfo == user(remoteCacheData, username)
        au == remoteAuthCache[username]
        writes == /\ userInfo # Nil
                  /\ ~(au # Nil /\ hashWithSalt(au.salt, password) = au.hash)
                  /\ CompareHashAndPassword(userInfo.Hash, password)
    IN  /\ remoteAuthCache' =
             IF writes
             THEN [remoteAuthCache EXCEPT ![username] =
                      saltedHash(salt, password) @@ [bhash |-> userInfo.Hash]]
             ELSE remoteAuthCache
        /\ UNCHANGED <<localVars, remoteCacheData, changed, remoteClosing, poll,
                       call, serverVars>>

(***************************************************************************)
(* store: the meta store of one server, seen from inside: its meta-node    *)
(* table, the raft membership, the dataChanged channel.                    *)
(***************************************************************************)
\* a channel is the number of its make(); 0 is the channel afterIndex makes
\* and closes, n > 0 is the n-th dataChanged of the store
closedCh == 0

\* the empty string where an address is expected
noAddr == <<>>

\* NodeInfo{ID, Host, TCPHost}: the HTTP address of meta node k is its own or
\* the one of its raft listener
tcpAddr(k) == <<"tcp", k>>
httpAddrs(k) == {<<"http", k>>, tcpAddr(k)}
NodeInfos ==
    UNION {{[ID |-> k, Host |-> h, TCPHost |-> tcpAddr(k)] : h \in httpAddrs(k)} :
           k \in 1..MaxNodeID}

\* the meta-node tables: nodes in the order of their creation
MetaNodeTables ==
    {<<>>} \cup {<<n>> : n \in NodeInfos}
           \cup {<<n, m>> : n \in {x \in NodeInfos : x.ID = 1},
                            m \in {x \in NodeInfos : x.ID = 2}}

\* newStore: Data{Index: 1}, raftState nil, a fresh dataChanged
newStore ==
    [data |-> [Index |-> 1, MaxNodeID |-> 0, MetaNodes |-> <<>>],
     raftState |-> Nil, dataChanged |-> 1]

memberIdle == [pc |-> "idle", n |-> Nil, calls |-> <<>>]
waiterIdle == [pc |-> "idle", idx |-> 0, ch |-> closedCh]

\* the store of the specifications that are about the clients
StoreNew == store = newStore /\ member = memberIdle /\ waiter = waiterIdle

nodes(data) == {data.MetaNodes[i] : i \in 1..Len(data.MetaNodes)}

\* Data.CreateMetaNode: a node with a new ID at the end of the table, unless
\* the table has a node with this HTTP address
DataCreateMetaNode(data, httpAddr, raftAddr) ==
    IF \E n \in nodes(data) : n.Host = httpAddr
    THEN data
    ELSE [data EXCEPT !.MaxNodeID = @ + 1,
                      !.MetaNodes = Append(@, [ID |-> data.MaxNodeID + 1,
                                                Host |-> httpAddr,
                                                TCPHost |-> raftAddr])]

\* Data.DeleteMetaNode: the table without the node with this ID
DataDeleteMetaNode(data, id) ==
    [data EXCEPT !.MetaNodes = SelectSeq(@, LAMBDA n : n.ID # id)]

\* the FSM callback: the entry is applied, Index advances, dataChanged is
\* closed and replaced
fsmApplied(st, data) ==
    [st EXCEPT !.data = [data EXCEPT !.Index = st.data.Index + 1],
               !.dataChanged = @ + 1]

\* store.leaderHTTP: the Host of the first node whose TCPHost is raft's leader
leaderHTTP(st) ==
    IF st.raftState = Nil THEN noAddr
    ELSE LET is == {i \in 1..Len(st.data.MetaNodes) :
                       st.data.MetaNodes[i].TCPHost = st.raftState.leader}
         IN  IF is = {} THEN noAddr
             ELSE st.data.MetaNodes[CHOOSE i \in is : \A j \in is : i <= j].Host

\* store.removeMetaNode(n): the store after the call, what it returns and the
\* calls it made; voterOk, applyOk: removeVoter, raft's apply return nil
removeMetaNode(st, n, voterOk, applyOk) ==
    IF leaderHTTP(st) = n.TCPHost
    THEN [store |-> st, err |-> "Can't remove leader node", calls |-> <<>>]
    ELSE IF st.raftState = Nil
    THEN [store |-> st, err |-> "store not open", calls |-> <<>>]
    ELSE IF ~voterOk
    THEN [store |-> st, err |-> "removeVoter", calls |-> <<"removeVoter">>]
    ELSE LET voted == [st EXCEPT !.raftState.peers = @ \ {n.TCPHost}]
             calls == <<"removeVoter", "DeleteMetaNode">>
         IN  IF ~applyOk
             THEN [store |-> voted, err |-> "apply", calls |-> calls]
             ELSE LET done == fsmApplied(voted, DataDeleteMetaNode(voted.data, n.ID))
                  IN  [store |-> done, calls |-> calls,
                       err |-> IF \E m \in nodes(done.data) :
                                     m.TCPHost = n.TCPHost /\ m.Host = n.Host
                               THEN "unable to drop the node in a cluster"
                               ELSE "nil"]

\* what an operation of the store leaves alone
storeFrame == <<cacheData, cacheObj, watched, authCache, metaDb, mu, closing, opened,
                retentionPolicyAutoCreate, beforeClose, authCall, authRaced,
                remoteCacheData, remoteAuthCache, changed, remoteClosing, poll,
                call, raftLog, applied, leader, creators, reader, locks, opener>>

\* a caller (the leave handler) calls removeMetaNode(n)
RemoveMetaNode(n, voterOk, applyOk) ==
    /\ member.pc = "idle" /\ ret = Nil
    /\ store.data.Index < MaxStoreIndex
    /\ \E r \in {removeMetaNode(store, n, voterOk, applyOk)} :
           /\ store' = r.store
           /\ ret' = [op |-> "store.removeMetaNode", arg |-> n, err |-> r.err,
                      calls |-> r.calls, before |-> store]
    /\ UNCHANGED <<member, waiter, storeFrame>>

\* store.addMetaNode(n), up to the RUnlock: "store not open", or addVoter
addMetaNodeKeepsOnAfterAddVoterFails(n, voterOk) ==
    /\ member.pc = "idle" /\ ret = Nil
    /\ IF store.raftState = Nil
       THEN /\ ret' = [op |-> "store.addMetaNode", arg |-> n,
                       err |-> "store not open", node |-> Nil, calls |-> <<>>,
                       nodes |-> nodes(store.data)]
            /\ UNCHANGED <<store, member>>
       ELSE /\ member' = [pc |-> "create", n |-> n, calls |-> <<"addVoter">>]
            /\ store' = IF voterOk
                        THEN [store EXCEPT !.raftState.peers = @ \cup {n.TCPHost}]
                        ELSE store
            /\ UNCHANGED ret
    /\ UNCHANGED <<waiter, storeFrame>>

addMetaNodeStart(n, voterOk) ==
    /\ member.pc = "idle" /\ ret = Nil
    /\ IF store.raftState = Nil
       THEN /\ ret' = [op |-> "store.addMetaNode", arg |-> n,
                       err |-> "store not open", node |-> Nil, calls |-> <<>>,
                       nodes |-> nodes(store.data)]
            /\ UNCHANGED <<store, member>>
       ELSE IF ~voterOk
       THEN /\ ret' = [op |-> "store.addMetaNode", arg |-> n,
                       err |-> "addVoter", node |-> Nil, calls |-> <<"addVoter">>,
                       nodes |-> nodes(store.data)]
            /\ UNCHANGED <<store, member>>
       ELSE /\ member' = [pc |-> "create", n |-> n, calls |-> <<"addVoter">>]
            /\ store' = [store EXCEPT !.raftState.peers = @ \cup {n.TCPHost}]
            /\ UNCHANGED ret
    /\ UNCHANGED <<waiter, storeFrame>>

\* a call of addMetaNode returns err
addMetaNodeFails(err, calls) ==
    /\ ret' = [op |-> "store.addMetaNode", arg |-> member.n, err |-> err,
               node |-> Nil, calls |-> calls, nodes |-> nodes(store.data)]
    /\ member' = memberIdle

\* callCreateMetaNode(n.Host, n.TCPHost)
addMetaNodeCreate(applyOk) ==
    /\ member.pc = "create" /\ ret = Nil
    /\ store.data.Index < MaxStoreIndex
    /\ LET calls == Append(member.calls, "CreateMetaNode")
       IN  IF applyOk
           THEN /\ store' = fsmApplied(store, DataCreateMetaNode(store.data,
                                           member.n.Host, member.n.TCPHost))
                /\ member' = [member EXCEPT !.pc = "setData", !.calls = calls]
                /\ UNCHANGED ret
           ELSE /\ addMetaNodeFails("apply", calls)
                /\ UNCHANGED store
    /\ UNCHANGED <<waiter, storeFrame>>

\* callSetData()
addMetaNodeSetData(applyOk) ==
    /\ member.pc = "setData" /\ ret = Nil
    /\ store.data.Index < MaxStoreIndex
    /\ LET calls == Append(member.calls, "SetData")
       IN  IF applyOk
           THEN /\ store' = fsmApplied(store, store.data)
                /\ member' = [member EXCEPT !.pc = "find", !.calls = calls]
                /\ UNCHANGED ret
           ELSE /\ addMetaNodeFails("apply", calls)
                /\ UNCHANGED store
    /\ UNCHANGED <<waiter, storeFrame>>

\* the node of the table with both addresses of n, or ErrNodeNotFound
addMetaNodeFind ==
    /\ member.pc = "find" /\ ret = Nil
    /\ LET is == {i \in 1..Len(store.data.MetaNodes) :
                     /\ store.data.MetaNodes[i].TCPHost = member.n.TCPHost
                     /\ store.data.MetaNodes[i].Host = member.n.Host}
       IN  ret' = [op |-> "store.addMetaNode", arg |-> member.n,
                   calls |-> member.calls, nodes |-> nodes(store.data),
                   err |-> IF is = {} THEN "ErrNodeNotFound" ELSE "nil",
                   node |-> IF is = {} THEN Nil
                            ELSE store.data.MetaNodes[
                                     CHOOSE i \in is : \A j \in is : i <= j]]
    /\ member' = memberIdle
    /\ UNCHANGED <<store, waiter, storeFrame>>

\* the FSM applies the entry of another caller: Index advances
fsmApply ==
    /\ store.raftState # Nil
    /\ store.data.Index < MaxStoreIndex
    /\ store' = fsmApplied(store, store.data)
    /\ UNCHANGED <<member, waiter, ret, storeFrame>>

\* the FSM applies the DeleteMetaNode of another server's leave
fsmDeleteMetaNode(id) ==
    /\ store.raftState # Nil
    /\ store.data.Index < MaxStoreIndex
    /\ \E n \in nodes(store.data) : n.ID = id
    /\ store' = fsmApplied(store, DataDeleteMetaNode(store.data, id))
    /\ UNCHANGED <<member, waiter, ret, storeFrame>>

\* raft elects another leader among the voters, or loses its leader
raftElects(l) ==
    /\ store.raftState # Nil
    /\ l \in store.raftState.peers \cup {noAddr}
    /\ l # store.raftState.leader
    /\ store' = [store EXCEPT !.raftState.leader = l]
    /\ UNCHANGED <<member, waiter, ret, storeFrame>>

\* store.afterIndex(idx): the channel it returns
afterIndexInclusive(st, idx) ==
    IF idx <= st.data.Index THEN closedCh ELSE st.dataChanged

afterIndexCh(st, idx) ==
    IF idx < st.data.Index THEN closedCh ELSE st.dataChanged

\* ch is closed in store st
isClosed(st, ch) == ch = closedCh \/ ch < st.dataChanged

\* a goroutine calls afterIndex(idx) and waits on the channel
afterIndexCall(idx) ==
    /\ waiter.pc = "idle"
    /\ waiter' = [pc |-> "waiting", idx |-> idx, ch |-> afterIndexCh(store, idx)]
    /\ UNCHANGED <<store, member, ret, storeFrame>>

\* the channel is closed: the receive returns
afterIndexReceive ==
    /\ waiter.pc = "waiting"
    /\ isClosed(store, waiter.ch)
    /\ waiter' = waiterIdle
    /\ UNCHANGED <<store, member, ret, storeFrame>>

(***************************************************************************)
(* The LocalClient specification.                                          *)
(***************************************************************************)
\* the RemoteClient as NewRemoteClient leaves it, the servers as newStore does
RemoteNew ==
    /\ remoteCacheData = EmptyData
    /\ remoteAuthCache = [n \in UserNames |-> Nil]
    /\ changed = 0
    /\ remoteClosing = FALSE
    /\ poll = [pc |-> "new", caller |-> "", idx |-> 0, currentServer |-> 0,
               server |-> 0, data |-> Nil]
    /\ call = callIdle
    /\ raftLog = <<NewData(1)>>
    /\ applied = [s \in metaServers |-> 1]

Init ==
    /\ RemoteNew /\ StoreNew /\ CreatorsNew /\ ReaderNew /\ LocksNew /\ OpenerNew /\ leader = 1
    /\ cacheData \in {NewData(id) : id \in ClusterIDs}
    /\ cacheObj = 0
    /\ watched = "none"
    /\ authCache = [n \in UserNames |-> Nil]
    /\ metaDb = Nil
    /\ mu = "free"
    /\ closing = FALSE
    /\ opened = FALSE
    /\ retentionPolicyAutoCreate \in BOOLEAN
    /\ ret = Nil
    /\ beforeClose = Nil
    /\ authCall = idle
    /\ authRaced = FALSE

Next ==
    \/ \E loadOk, ioOk \in BOOLEAN : Open(loadOk, ioOk)
    \/ Close
    \/ \E id \in ClusterIDs : NewClient(id)
    \/ Return
    \/ \E n \in DbNames, ioOk \in BOOLEAN : CreateDatabase(n, ioOk)
    \/ \E n \in DbNames, ioOk \in BOOLEAN : DropDatabase(n, ioOk)
    \/ \E n \in UserNames, p \in Passwords, a \in BOOLEAN,
          b \in 1..MaxBcryptSalt, ioOk \in BOOLEAN : CreateUser(n, p, a, b, ioOk)
    \/ \E n \in UserNames, p \in Passwords, b \in 1..MaxBcryptSalt,
          ioOk \in BOOLEAN : UpdateUser(n, p, b, ioOk)
    \/ \E n \in UserNames, ioOk \in BOOLEAN : DropUser(n, ioOk)
    \/ \E d \in SetDataArgs, ioOk \in BOOLEAN : SetData(d, ioOk)

Spec == Init /\ [][Next]_vars

(***************************************************************************)
(* The LocalClient with a goroutine in Authenticate beside the caller of   *)
(* the user methods.                                                       *)
(***************************************************************************)
AuthNext ==
    \/ \E loadOk, ioOk \in BOOLEAN : Open(loadOk, ioOk)
    \/ Return
    \/ \E n \in UserNames, p \in Passwords, a \in BOOLEAN,
          b \in 1..MaxBcryptSalt, ioOk \in BOOLEAN : CreateUser(n, p, a, b, ioOk)
    \/ \E n \in UserNames, p \in Passwords, b \in 1..MaxBcryptSalt,
          ioOk \in BOOLEAN : UpdateUser(n, p, b, ioOk)
    \/ \E n \in UserNames, ioOk \in BOOLEAN : DropUser(n, ioOk)
    \/ \E n \in UserNames, p \in Passwords : AuthenticateFind(n, p)
    \/ \E s \in 1..MaxSalt : AuthenticateCache(s)
    \/ AuthenticateStore
    \/ AuthenticateReturn

\* ClusterID and the auto-create flag are read by no user method
AuthInit == Init /\ cacheData.ClusterID = 1 /\ retentionPolicyAutoCreate

AuthSpec == AuthInit /\ [][AuthNext]_vars


(***************************************************************************)
(* The RemoteClient with its poller, one caller of commands, other         *)
(* clients, and meta servers of which any one is the leader.               *)
(***************************************************************************)
RemoteInit ==
    /\ RemoteNew /\ StoreNew /\ CreatorsNew /\ ReaderNew /\ LocksNew /\ OpenerNew /\ leader \in metaServers
    /\ cacheData = NewData(1)
    /\ cacheObj = 0
    /\ watched = "none"
    /\ authCache = [n \in UserNames |-> Nil]
    /\ metaDb = Nil
    /\ mu = "free"
    /\ closing = FALSE
    /\ opened = FALSE
    /\ retentionPolicyAutoCreate = TRUE
    /\ ret = Nil
    /\ beforeClose = Nil
    /\ authCall = idle
    /\ authRaced = FALSE

PollerStep ==
    \/ retryUntilSnapshotLoop
    \/ getSnapshotOK
    \/ getSnapshotErr
    \/ OpenInstall
    \/ pollForUpdatesStart
    \/ pollForUpdatesInstall

CallerStep ==
    \/ retryUntilExecLoop
    \/ execApplied
    \/ execRejected
    \/ execRedirect
    \/ execFailed
    \/ waitForIndexCheck
    \/ waitForIndexWake
    \/ retryUntilExecReturn

RemoteNext ==
    \/ RemoteOpen
    \/ RemoteClose
    \/ PollerStep
    \/ \E cmd \in DbCommands : retryUntilExecStart(cmd)
    \/ CallerStep
    \/ \E cmd \in DbCommands : otherClientExec(cmd)
    \/ \E s \in metaServers : followerApply(s)

RemoteSpec == RemoteInit /\ [][RemoteNext]_vars

\* every goroutine of the client keeps running and every HTTP request returns
RemoteFairSpec == RemoteSpec /\ WF_vars(PollerStep) /\ WF_vars(CallerStep)

(***************************************************************************)
(* RemoteClient: shard groups.  The calls are taken in a cluster whose     *)
(* leader accepts every command at the first POST and whose poller         *)
(* installs the snapshot that releases waitForIndex before anything else   *)
(* happens: st.log is the raft log, st.cache the client's cacheData.       *)
(***************************************************************************)
\* CreateShardGroup: nothing is sent when the cache already has the group
RemoteCreateShardGroup(st, database, rp, timestamp) ==
    LET cmd == [type |-> "CreateShardGroup", database |-> database,
                policy |-> rp, timestamp |-> timestamp]
        r == applyCommand(st.log[Len(st.log)], cmd)
        data == [r.data EXCEPT !.Index = Len(st.log) + 1]
    IN  IF ShardGroupByTimestamp(st.cache, database, rp, timestamp) # Nil THEN st
        ELSE IF r.err # "nil" THEN st
        ELSE [log |-> Append(st.log, data), cache |-> data]

\* the databases the outer loop visits before its return nil
visited(databases) == IF databases = <<>> THEN <<>> ELSE <<databases[1]>>

\* the loops over the policies of the snapshot c.data() returned to range
RECURSIVE remotePrecreateLoop(_, _, _, _, _)
remotePrecreateLoop(st, todo, from, to, data) ==
    IF todo = <<>> THEN st
    ELSE LET rp == RetentionPolicy(data, todo[1][1], todo[1][2])
             rg == rp.ShardGroups[Len(rp.ShardGroups)]
             nextShardGroupTime == rg.EndTime + 1
             step == IF ~lastGroupEndsWithin(rp, from, to) THEN st
                     ELSE RemoteCreateShardGroup(st, todo[1][1], rp.Name,
                                                 nextShardGroupTime)
         IN  remotePrecreateLoop(step, Tail(todo), from, to, data)

RemotePrecreateShardGroups(from, to) ==
    /\ poll.caller = "pollForUpdates" /\ poll.pc = "start"
    /\ call.pc = "idle" /\ ~remoteClosing /\ ret = Nil
    /\ applied[leader] = Len(raftLog)
    /\ \E st \in {remotePrecreateLoop([log |-> raftLog, cache |-> remoteCacheData],
                                       policies(visited(remoteCacheData.Databases)),
                                       from, to, remoteCacheData)} :
           /\ Len(st.log) <= MaxRaftIndex
           /\ raftLog' = st.log
           /\ applied' = [applied EXCEPT ![leader] = Len(st.log)]
           /\ remoteCacheData' = st.cache
           /\ remoteAuthCache' = updateAuthCache(st.cache, remoteAuthCache)
           /\ changed' = changed + (Len(st.log) - Len(raftLog))
    /\ ret' = [op |-> "RemoteClient.PrecreateShardGroups", arg |-> <<from, to>>,
               err |-> "nil"]
    /\ UNCHANGED <<cacheData, cacheObj, watched, authCache, metaDb, mu, closing, opened,
                   retentionPolicyAutoCreate, beforeClose, authCall, authRaced,
                   remoteClosing, poll, call, leader, sideVars>>

(***************************************************************************)
(* RemoteClient: retention policies, in a cluster whose leader answers the *)
(* first POST and whose poller installs the snapshot that releases         *)
(* waitForIndex before anything else happens.                              *)
(***************************************************************************)
\* retryUntilExec: the leader rejects cmd (errCommand), or commits it and the
\* cache holds the entry when the call returns
execAtOnce(st, cmd) ==
    LET r == applyCommand(st.log[Len(st.log)], cmd)
        data == [r.data EXCEPT !.Index = Len(st.log) + 1]
    IN  IF r.err # "nil"
        THEN [log |-> st.log, cache |-> st.cache, err |-> r.err, sent |-> TRUE]
        ELSE [log |-> Append(st.log, data), cache |-> data, err |-> "nil",
              sent |-> TRUE]

\* a return before any command is sent
unsent(st, err) == [log |-> st.log, cache |-> st.cache, err |-> err, sent |-> FALSE]

remoteCreateDatabaseWithRetentionPolicy(st, name, spec) ==
    LET rp == RetentionPolicy(st.cache, name, spec.Name)
        cmd == [type |-> "CreateDatabaseWithRetentionPolicy", name |-> name,
                rpi |-> NewRetentionPolicyInfo(spec)]
        e == execAtOnce(st, cmd)
    IN  IF durationTooLow(spec) THEN unsent(st, "ErrRetentionPolicyDurationTooLow")
        ELSE IF rp # Nil
        THEN IF spec.Duration = <<>> THEN unsent(st, "panic")
             ELSE IF rp.ReplicaN # spec.ReplicaN \/ rp.Duration # spec.Duration[1]
             THEN unsent(st, "ErrRetentionPolicyConflict")
             ELSE unsent(st, "nil")
        ELSE IF e.err = "nil" /\ Database(e.cache, name) = Nil
        THEN [e EXCEPT !.err = "ErrDatabaseNotExists"]
        ELSE e

remoteCreateRetentionPolicy(st, database, spec, makeDefault) ==
    LET cmd == [type |-> "CreateRetentionPolicy", database |-> database,
                rpi |-> NewRetentionPolicyInfo(spec), makeDefault |-> makeDefault]
        e == execAtOnce(st, cmd)
    IN  IF RetentionPolicy(st.cache, database, spec.Name) # Nil THEN unsent(st, "nil")
        ELSE IF durationTooLow(spec)
        THEN unsent(st, "ErrRetentionPolicyDurationTooLow")
        ELSE IF e.err = "nil" /\ Database(e.cache, database) = Nil
        THEN [e EXCEPT !.err = "ErrDatabaseNotFound"]
        ELSE e

\* the call returns r to its caller
remoteReturns(op, arg, r) ==
    /\ poll.caller = "pollForUpdates" /\ poll.pc = "start"
    /\ call.pc = "idle" /\ ~remoteClosing /\ ret = Nil
    /\ applied[leader] = Len(raftLog)
    /\ Len(r.log) <= MaxRaftIndex
    /\ raftLog' = r.log
    /\ applied' = [applied EXCEPT ![leader] = Len(r.log)]
    /\ remoteCacheData' = r.cache
    /\ remoteAuthCache' = updateAuthCache(r.cache, remoteAuthCache)
    /\ changed' = changed + (Len(r.log) - Len(raftLog))
    /\ ret' = [op |-> op, arg |-> arg, err |-> r.err, sent |-> r.sent]
    /\ UNCHANGED <<cacheData, cacheObj, watched, authCache, metaDb, mu, closing, opened,
                   retentionPolicyAutoCreate, beforeClose, authCall, authRaced,
                   remoteClosing, poll, call, leader, sideVars>>

RemoteCreateDatabaseWithRetentionPolicy(name, spec) ==
    \E r \in {remoteCreateDatabaseWithRetentionPolicy(
                 [log |-> raftLog, cache |-> remoteCacheData], name, spec)} :
       remoteReturns("RemoteClient.CreateDatabaseWithRetentionPolicy",
                     [database |-> name, spec |-> spec, makeDefault |-> TRUE], r)

RemoteCreateRetentionPolicy(database, spec, makeDefault) ==
    \E r \in {remoteCreateRetentionPolicy(
                 [log |-> raftLog, cache |-> remoteCacheData],
                 database, spec, makeDefault)} :
       remoteReturns("RemoteClient.CreateRetentionPolicy",
                     [database |-> database, spec |-> spec,
                      makeDefault |-> makeDefault], r)

(***************************************************************************)
(* RemoteClient: AcquireLease.  What http.Get returns is the environment's *)
(* choice: no response at all, or a status with a body that is the JSON of *)
(* a Lease or some other text.                                             *)
(***************************************************************************)
LeaseNames == {"ContinuousQuery", "Other"}

StatusCodes == {200, 307, 400, 409, 500, 503}

Responses ==
    {[status |-> 0, body |-> ""]}
    \cup [status : StatusCodes, body : {"lease", "text"}]

\* the Lease the body of resp decodes to
decoded(name, resp) == [Name |-> name, Owner |-> resp.status]

\* acquireLease, given the answer to its GET
acquireLease(name, resp) ==
    LET readLease(err) ==
            IF resp.body # "lease" THEN [l |-> Nil, err |-> "json"]
            ELSE [l |-> decoded(name, resp), err |-> err]
    IN  CASE resp.status = 0 -> [l |-> Nil, err |-> "http"]
          [] resp.status = 200 -> readLease("nil")
          [] resp.status = 409 -> readLease("another node owns the lease")
          [] resp.status = 503 -> [l |-> Nil, err |-> "ErrServiceUnavailable"]
          [] resp.status = 400 -> [l |-> Nil, err |-> "meta service: body"]
          [] resp.status = 500 -> [l |-> Nil, err |-> "meta service internal error"]
          [] OTHER -> [l |-> Nil, err |-> "unrecognized meta service error"]

\* AcquireLease is called: n := 1
AcquireLeaseStart(name) ==
    /\ call.pc = "idle" /\ ret = Nil
    /\ call' = [callIdle EXCEPT !.pc = "lease",
                                !.cmd = [type |-> "AcquireLease", name |-> name]]
    /\ UNCHANGED <<callFrame, serverVars>>

\* one iteration of the loop of AcquireLease: call.tries is n - 1, call.index
\* the status of the response that made it go round
AcquireLeaseRequest(resp) ==
    /\ call.pc = "lease"
    /\ LET r == acquireLease(call.cmd.name, resp)
           n == call.tries + 1
           again == /\ r.err \in {"ErrServiceUnavailable", "ErrService"}
                    /\ n + 1 < leaseAttempts + 1
       IN  IF again
           THEN /\ call' = [call EXCEPT !.tries = n, !.index = resp.status,
                                        !.err = r.err]
                /\ UNCHANGED ret
           ELSE /\ call' = callIdle
                /\ ret' = [op |-> "AcquireLease", arg |-> call.cmd.name,
                           resp |-> resp, requests |-> n, l |-> r.l, err |-> r.err]
    /\ UNCHANGED <<cacheData, cacheObj, watched, authCache, metaDb, mu, closing, opened,
                   retentionPolicyAutoCreate, beforeClose, authCall, authRaced,
                   remoteCacheData, remoteAuthCache, changed, remoteClosing, poll,
                   serverVars>>

(***************************************************************************)
(* The RemoteClient in a healthy cluster: the leader is reachable and      *)
(* accepts the commands, every follower answers a POST with 307, every GET *)
(* is answered, nobody closes the client.                                  *)
(***************************************************************************)
CreateCommands == {[type |-> "CreateDatabase", name |-> n] : n \in DbNames}

\* the raft log has room for the command of the call in flight
RoomForCall == Len(raftLog) + 1 < MaxRaftIndex

RedirectPollerStep ==
    \/ retryUntilSnapshotLoop
    \/ getSnapshotOK
    \/ OpenInstall
    \/ pollForUpdatesStart
    \/ pollForUpdatesInstall

RedirectCallerStep ==
    \/ retryUntilExecLoop
    \/ execApplied
    \/ execRedirect
    \/ waitForIndexCheck
    \/ waitForIndexWake
    \/ retryUntilExecReturn

RedirectNext ==
    \/ RemoteOpen
    \/ RedirectPollerStep
    \/ \E cmd \in CreateCommands :
          Len(raftLog) < MaxRaftIndex /\ retryUntilExecStart(cmd)
    \/ RedirectCallerStep
    \/ \E cmd \in DbCommands :
          /\ call.pc \notin {"loop", "post"} \/ RoomForCall
          /\ otherClientExec(cmd)
    \/ \E s \in metaServers : followerApply(s)

RedirectSpec ==
    /\ RemoteInit /\ [][RedirectNext]_vars
    /\ WF_vars(RedirectPollerStep)
    /\ WF_vars(RedirectCallerStep)
    /\ WF_vars(\E s \in metaServers : followerApply(s))

(***************************************************************************)
(* The shard groups: a Client, or a RemoteClient, opened on a Data that    *)
(* has two databases and three retention policies, and a caller of         *)
(* PrecreateShardGroups.                                                   *)
(***************************************************************************)
Times == 0..MaxTime

\* the k-th group of a policy: the bucket [k*d, (k+1)*d)
shardGroup(id, k, d, deleted) ==
    [ID |-> id, StartTime |-> k * d, EndTime |-> (k + 1) * d,
     DeletedAt |-> IF deleted THEN 1 ELSE 0]

\* the groups of the q-th policy: none, one or two, the last live or deleted
ShardGroupLists(q, d) ==
    {<<>>}
    \cup {<<shardGroup(2 * q - 1, 0, d, x)>> : x \in BOOLEAN}
    \cup {<<shardGroup(2 * q - 1, 0, d, FALSE), shardGroup(2 * q, 1, d, y)>> :
             y \in BOOLEAN}

ShardPolicies(q, name) ==
    UNION {{[Name |-> name, Duration |-> 0, ShardGroupDuration |-> d,
              ReplicaN |-> 1, ShardGroups |-> g] : g \in ShardGroupLists(q, d)} :
             d \in ShardGroupDurations}

ShardData ==
    {[ClusterID |-> 1, Index |-> 1, MaxShardGroupID |-> 6, Users |-> <<>>,
      Databases |->
        <<[Name |-> "db0", DefaultRetentionPolicy |-> "rp0",
           RetentionPolicies |-> <<p1, p2>>],
          [Name |-> "db1", DefaultRetentionPolicy |-> "rp0",
           RetentionPolicies |-> <<p3>>]>>] :
        p1 \in ShardPolicies(1, "rp0"), p2 \in ShardPolicies(2, "rp1"),
        p3 \in ShardPolicies(3, "rp0")}

\* a Client opened on d, the RemoteClient not yet opened
ShardInitLocal(d) ==
    /\ RemoteNew /\ StoreNew /\ CreatorsNew /\ ReaderNew /\ LocksNew /\ OpenerNew /\ leader = 1
    /\ cacheData = d
    /\ cacheObj = 0
    /\ watched = "none"
    /\ metaDb = MarshalBinary(d)
    /\ opened = TRUE

\* a RemoteClient opened on a cluster whose Data is d, the Client not opened
ShardInitRemote(d) ==
    /\ remoteCacheData = d
    /\ remoteAuthCache = [n \in UserNames |-> Nil]
    /\ changed = 0
    /\ remoteClosing = FALSE
    /\ poll = [pc |-> "start", caller |-> "pollForUpdates", idx |-> 0,
               currentServer |-> 0, server |-> 0, data |-> Nil]
    /\ call = callIdle
    /\ raftLog = <<d>>
    /\ applied = [s \in metaServers |-> 1]
    /\ leader = 1
    /\ StoreNew /\ CreatorsNew /\ ReaderNew /\ LocksNew /\ OpenerNew
    /\ cacheData = NewData(1)
    /\ cacheObj = 0
    /\ watched = "none"
    /\ metaDb = Nil
    /\ opened = FALSE

ShardInit ==
    /\ \E d \in ShardData : ShardInitLocal(d) \/ ShardInitRemote(d)
    /\ authCache = [n \in UserNames |-> Nil]
    /\ mu = "free"
    /\ closing = FALSE
    /\ retentionPolicyAutoCreate = TRUE
    /\ ret = Nil
    /\ beforeClose = Nil
    /\ authCall = idle
    /\ authRaced = FALSE

ShardNext ==
    \/ \E from, to \in Times, ioOk \in BOOLEAN : PrecreateShardGroups(from, to, ioOk)
    \/ \E ioOk \in BOOLEAN : PrecreateShardGroupsAgain(ioOk)
    \/ \E from, to \in Times : RemotePrecreateShardGroups(from, to)
    \/ Return

ShardSpec == ShardInit /\ [][ShardNext]_vars

(***************************************************************************)
(* The retention policies: a Client, or a RemoteClient, opened on a new    *)
(* Data, and a caller that creates databases and retention policies.       *)
(***************************************************************************)
RetentionInit ==
    /\ ShardInitLocal(NewData(1)) \/ ShardInitRemote(NewData(1))
    /\ authCache = [n \in UserNames |-> Nil]
    /\ mu = "free"
    /\ closing = FALSE
    /\ retentionPolicyAutoCreate \in BOOLEAN
    /\ ret = Nil
    /\ beforeClose = Nil
    /\ authCall = idle
    /\ authRaced = FALSE

RetentionNext ==
    \/ \E n \in DbNames, ioOk \in BOOLEAN : CreateDatabase(n, ioOk)
    \/ \E n \in DbNames, spec \in RetentionPolicySpecs, ioOk \in BOOLEAN :
          CreateDatabaseWithRetentionPolicy(n, spec, ioOk)
    \/ \E n \in DbNames, spec \in RetentionPolicySpecs, d, ioOk \in BOOLEAN :
          CreateRetentionPolicy(n, spec, d, ioOk)
    \/ \E n \in DbNames, spec \in RetentionPolicySpecs :
          RemoteCreateDatabaseWithRetentionPolicy(n, spec)
    \/ \E n \in DbNames, spec \in RetentionPolicySpecs, d \in BOOLEAN :
          RemoteCreateRetentionPolicy(n, spec, d)
    \/ Return

RetentionSpec == RetentionInit /\ [][RetentionNext]_vars

(***************************************************************************)
(* A caller of RemoteClient.AcquireLease.                                  *)
(***************************************************************************)
LeaseNext ==
    \/ \E name \in LeaseNames : AcquireLeaseStart(name)
    \/ \E resp \in Responses : AcquireLeaseRequest(resp)
    \/ Return

LeaseSpec == RemoteInit /\ [][LeaseNext]_vars

(***************************************************************************)
(* The RemoteClient with its poller and callers of Authenticate, while     *)
(* other clients create, update and drop users.                            *)
(***************************************************************************)
RemoteAuthNext ==
    \/ RemoteOpen
    \/ PollerStep
    \/ \E n \in UserNames, p \in Passwords, s \in 1..MaxSalt :
          RemoteAuthenticate(n, p, s)
    \/ \E cmd \in UserCommands : otherClientExec(cmd)
    \/ \E s \in metaServers : followerApply(s)

RemoteAuthSpec == RemoteInit /\ [][RemoteAuthNext]_vars

(***************************************************************************)
(* The store of one meta server: callers of addMetaNode and removeMetaNode,*)
(* a goroutine waiting on afterIndex, the FSM and raft's elections.        *)
(***************************************************************************)
\* the stores of a cluster: any table of meta nodes, raft not open or open
\* with the nodes of the table as voters and one of them, or none, as leader
Stores ==
    UNION {
        LET peers == {n.TCPHost : n \in {t[i] : i \in 1..Len(t)}}
            data == [Index |-> 1, MaxNodeID |-> MaxNodeID, MetaNodes |-> t]
        IN  {[data |-> data, raftState |-> Nil, dataChanged |-> 1]} \cup
            {[data |-> data, dataChanged |-> 1,
              raftState |-> [peers |-> peers, leader |-> l]] :
                 l \in peers \cup {noAddr}}
        : t \in MetaNodeTables}

StoreInit ==
    /\ RemoteNew /\ leader = 1
    /\ store \in Stores
    /\ CreatorsNew /\ ReaderNew /\ LocksNew /\ OpenerNew
    /\ member = memberIdle
    /\ waiter = waiterIdle
    /\ cacheData = NewData(1)
    /\ cacheObj = 0
    /\ watched = "none"
    /\ authCache = [n \in UserNames |-> Nil]
    /\ metaDb = Nil
    /\ mu = "free"
    /\ closing = FALSE
    /\ opened = FALSE
    /\ retentionPolicyAutoCreate = TRUE
    /\ ret = Nil
    /\ beforeClose = Nil
    /\ authCall = idle
    /\ authRaced = FALSE

StoreNext ==
    \/ \E n \in NodeInfos, voterOk, applyOk \in BOOLEAN :
          RemoveMetaNode(n, voterOk, applyOk)
    \/ \E n \in NodeInfos, voterOk \in BOOLEAN : addMetaNodeStart(n, voterOk)
    \/ \E applyOk \in BOOLEAN : addMetaNodeCreate(applyOk)
    \/ \E applyOk \in BOOLEAN : addMetaNodeSetData(applyOk)
    \/ addMetaNodeFind
    \/ fsmApply
    \/ \E id \in 1..(MaxNodeID + MaxStoreIndex) : fsmDeleteMetaNode(id)
    \/ \E k \in 1..MaxNodeID : raftElects(tcpAddr(k))
    \/ raftElects(noAddr)
    \/ Return

StoreSpec == StoreInit /\ [][StoreNext]_vars

(***************************************************************************)
(* The store of the first meta server of a cluster, raft open: a goroutine *)
(* that waits on afterIndex, while the FSM applies the entries of          *)
(* addMetaNode and of other callers.                                       *)
(***************************************************************************)
AfterIndexInit ==
    /\ StoreInit
    /\ store.raftState # Nil
    /\ Len(store.data.MetaNodes) = 1

AfterIndexNext ==
    \/ \E idx \in 0..MaxStoreIndex : afterIndexCall(idx)
    \/ afterIndexReceive
    \/ fsmApply
    \/ \E n \in NodeInfos, voterOk \in BOOLEAN : addMetaNodeStart(n, voterOk)
    \/ \E applyOk \in BOOLEAN : addMetaNodeCreate(applyOk)
    \/ \E applyOk \in BOOLEAN : addMetaNodeSetData(applyOk)
    \/ addMetaNodeFind
    \/ Return

AfterIndexSpec == AfterIndexInit /\ [][AfterIndexNext]_vars


(***************************************************************************)
(* The pruning of deleted shard groups: a Client opened on a Data with two *)
(* retention policies whose groups are live or were deleted at some time,  *)
(* and a caller of PruneShardGroups at any time.                           *)
(***************************************************************************)
\* the times a group was deleted at, 0 for a live group
DeletedAts == 0..MaxDeletedAt

\* no group, one or two groups of one week each
PruneGroupLists(q) ==
    {<<>>}
    \cup {<<[ID |-> 2 * q - 1, StartTime |-> 0, EndTime |-> 1, DeletedAt |-> x]>> :
             x \in DeletedAts}
    \cup {<<[ID |-> 2 * q - 1, StartTime |-> 0, EndTime |-> 1, DeletedAt |-> x],
            [ID |-> 2 * q, StartTime |-> 1, EndTime |-> 2, DeletedAt |-> y]>> :
             x \in DeletedAts, y \in DeletedAts}

PruneData ==
    {[ClusterID |-> 1, Index |-> 1, MaxShardGroupID |-> 4, Users |-> <<>>,
      Databases |->
        <<[Name |-> "db0", DefaultRetentionPolicy |-> "rp0",
           RetentionPolicies |->
             <<[Name |-> "rp0", Duration |-> 0, ShardGroupDuration |-> 1,
                ReplicaN |-> 1, ShardGroups |-> g1],
               [Name |-> "rp1", Duration |-> 0, ShardGroupDuration |-> 1,
                ReplicaN |-> 1, ShardGroups |-> g2]>>]>>] :
        g1 \in PruneGroupLists(1), g2 \in PruneGroupLists(2)}

PruneInit ==
    /\ \E d \in PruneData : ShardInitLocal(d)
    /\ authCache = [n \in UserNames |-> Nil]
    /\ mu = "free"
    /\ closing = FALSE
    /\ retentionPolicyAutoCreate = TRUE
    /\ ret = Nil
    /\ beforeClose = Nil
    /\ authCall = idle
    /\ authRaced = FALSE

PruneNext ==
    \/ \E now \in Times, ioOk \in BOOLEAN : PruneShardGroups(now, ioOk)
    \/ Return

PruneSpec == PruneInit /\ [][PruneNext]_vars


(***************************************************************************)
(* Concurrent callers of Client.CreateShardGroup on a Client opened on a   *)
(* Data with one retention policy, its groups the buckets of its duration. *)
(***************************************************************************)
CreateData ==
    {[ClusterID |-> 1, Index |-> 1, MaxShardGroupID |-> 2, Users |-> <<>>,
      Databases |->
        <<[Name |-> "db0", DefaultRetentionPolicy |-> "rp0",
           RetentionPolicies |-> <<p>>]>>] : p \in ShardPolicies(1, "rp0")}

CreateInit ==
    /\ \E d \in CreateData : ShardInitLocal(d)
    /\ authCache = [n \in UserNames |-> Nil]
    /\ mu = "free"
    /\ closing = FALSE
    /\ retentionPolicyAutoCreate = TRUE
    /\ ret = Nil
    /\ beforeClose = Nil
    /\ authCall = idle
    /\ authRaced = FALSE

CreateNext ==
    \/ \E c \in Creators, timestamp \in Times :
          CreateShardGroupCheck(c, "db0", "rp0", timestamp)
    \/ \E c \in Creators, ioOk \in BOOLEAN : CreateShardGroupLocked(c, ioOk)
    \/ CreateShardGroupDone

CreateSpec == CreateInit /\ [][CreateNext]_vars


(***************************************************************************)
(* The RemoteClient and one caller of retryUntilExec in a cluster whose    *)
(* servers answer as they like: the leader applies or rejects the command, *)
(* a follower redirects, any request may fail, and raft may elect another  *)
(* leader between two requests.                                            *)
(***************************************************************************)
RetryNext ==
    \/ RemoteOpen
    \/ RedirectPollerStep
    \/ \E cmd \in DbCommands :
          Len(raftLog) < MaxRaftIndex /\ retryUntilExecStart(cmd)
    \/ CallerStep
    \/ \E s \in metaServers : followerApply(s)
    \/ \E s \in metaServers : call.pc = "loop" /\ leaderElected(s)

RetrySpec == RemoteInit /\ [][RetryNext]_vars

(***************************************************************************)
(* The same caller when no server of the cluster answers: every request of *)
(* retryUntilExec fails.                                                   *)
(***************************************************************************)
FailNext ==
    \/ RemoteOpen
    \/ retryUntilSnapshotLoop
    \/ getSnapshotOK
    \/ OpenInstall
    \/ pollForUpdatesStart
    \/ \E cmd \in DbCommands : retryUntilExecStart(cmd)
    \/ retryUntilExecLoop
    \/ execFailed
    \/ retryUntilExecReturn

FailSpec == RemoteInit /\ [][FailNext]_vars


(***************************************************************************)
(* A Client made on a directory that may hold the meta.db of an earlier    *)
(* run, the caller of its methods, and a goroutine in Client.Data beside   *)
(* it.  A method that takes c.mu.Lock waits until the reader has unlocked. *)
(***************************************************************************)
\* what an earlier run can have left in meta.db
CowData ==
    {[NewData(1) EXCEPT !.Index = 2,
                        !.Users = <<[Name |-> "u1",
                                     Hash |-> GenerateFromPassword("p1", 1),
                                     Admin |-> TRUE]>>]}
    \cup {d \in PruneData :
             /\ Len(d.Databases[1].RetentionPolicies[1].ShardGroups) = 1
             /\ d.Databases[1].RetentionPolicies[1].ShardGroups[1].DeletedAt = 1
             /\ d.Databases[1].RetentionPolicies[2].ShardGroups = <<>>}

CowInit ==
    /\ RemoteNew /\ StoreNew /\ CreatorsNew /\ ReaderNew /\ LocksNew /\ OpenerNew /\ leader = 1
    /\ cacheData \in {NewData(id) : id \in ClusterIDs}
    /\ cacheObj = 0
    /\ watched = "none"
    /\ authCache = [n \in UserNames |-> Nil]
    /\ metaDb \in {Nil} \cup {MarshalBinary(d) : d \in CowData}
    /\ mu = "free"
    /\ closing = FALSE
    /\ opened = FALSE
    /\ retentionPolicyAutoCreate = FALSE
    /\ ret = Nil
    /\ beforeClose = Nil
    /\ authCall = idle
    /\ authRaced = FALSE

CowNext ==
    \/ ~RLocked /\ \E loadOk, ioOk \in BOOLEAN : Open(loadOk, ioOk)
    \/ ~RLocked /\ Close
    \/ reader.pc = "idle" /\ \E id \in ClusterIDs : NewClient(id)
    \/ Return
    \/ ~RLocked /\ \E n \in DbNames, ioOk \in BOOLEAN : CreateDatabase(n, ioOk)
    \/ ~RLocked /\ \E ioOk \in BOOLEAN : CreateUser("u2", "p1", FALSE, 1, ioOk)
    \/ ~RLocked /\ \E n \in UserNames, ioOk \in BOOLEAN : DropUser(n, ioOk)
    \/ ~RLocked /\ \E now \in Times, ioOk \in BOOLEAN : PruneShardGroups(now, ioOk)
    \/ \E ioOk \in BOOLEAN : LoadCall(ioOk)
    \/ DataRLock
    \/ DataCloneDatabases
    \/ DataCloneUsers
    \/ DataReturn

CowSpec == CowInit /\ [][CowNext]_vars


(***************************************************************************)
(* The change broadcast: a Client with a caller of its methods and a       *)
(* holder of the channel WaitForDataChanged returned, and a RemoteClient   *)
(* whose poller installs what other clients of the cluster commit.         *)
(***************************************************************************)
ChangedInit == RemoteInit /\ leader = 1

ChangedNext ==
    \/ \E loadOk, ioOk \in BOOLEAN : Open(loadOk, ioOk)
    \/ Return
    \/ \E n \in DbNames, ioOk \in BOOLEAN : CreateDatabase(n, ioOk)
    \/ \E n \in DbNames, ioOk \in BOOLEAN : DropDatabase(n, ioOk)
    \/ WaitForDataChanged
    \/ RemoteOpen
    \/ retryUntilSnapshotLoop
    \/ getSnapshotOK
    \/ OpenInstall
    \/ pollForUpdatesStart
    \/ pollForUpdatesInstall
    \/ \E cmd \in DbCommands : otherClientExec(cmd)
    \/ \E s \in metaServers : followerApply(s)

ChangedSpec == ChangedInit /\ [][ChangedNext]_vars


(***************************************************************************)
(* The mutexes.  The poller of an opened RemoteClient installs snapshots   *)
(* in its section under c.mu.Lock while a caller is in CreateUser; the FSM *)
(* of a store applies entries in its section under s.mu.Lock while a       *)
(* caller is in addMetaNode.  locks.cmu and locks.smu name the holder of   *)
(* the write lock; a section under a lock is entered only when it is free. *)
(***************************************************************************)
lockFrame == <<localVars, remoteCacheData, remoteAuthCache, changed, remoteClosing,
               poll, call, raftLog, applied, leader, storeVars, creators, reader,
               opener>>

\* pollForUpdates: c.mu.Lock()
pollForUpdatesLock ==
    /\ poll.pc = "got" /\ poll.caller = "pollForUpdates"
    /\ locks.cmu = "free"
    /\ locks' = [locks EXCEPT !.cmu = "pollForUpdates"]
    /\ UNCHANGED lockFrame

\* pollForUpdates: c.mu.Unlock()
pollForUpdatesUnlock ==
    /\ poll.pc = "start" /\ locks.cmu = "pollForUpdates"
    /\ locks' = [locks EXCEPT !.cmu = "free"]
    /\ UNCHANGED lockFrame

\* RemoteClient.CreateUser: data := c.cacheData.Clone(), no lock taken
RemoteCreateUserClone ==
    /\ poll.caller = "pollForUpdates"
    /\ locks.user.pc = "idle"
    /\ locks' = [locks EXCEPT !.user = [pc |-> "cloned", held |-> "none",
                                        data |-> Clone(remoteCacheData)]]
    /\ UNCHANGED lockFrame

\* RemoteClient.CreateUser: the rest of the call
RemoteCreateUserReturn ==
    /\ locks.user.pc = "cloned"
    /\ locks' = [locks EXCEPT !.user = [pc |-> "idle", held |-> "", data |-> Nil]]
    /\ UNCHANGED lockFrame

\* the FSM: s.mu.Lock() before it applies an entry
fsmLock ==
    /\ store.raftState # Nil /\ locks.smu = "free"
    /\ locks' = [locks EXCEPT !.smu = "fsm"]
    /\ UNCHANGED lockFrame

\* the FSM: s.mu.Unlock()
fsmUnlock ==
    /\ locks.smu = "fsm"
    /\ locks' = [locks EXCEPT !.smu = "free"]
    /\ UNCHANGED lockFrame

LockInit ==
    /\ AfterIndexInit
    /\ store.raftState.leader = tcpAddr(1)
    /\ store.data.MetaNodes[1].Host = tcpAddr(1)

LockNext ==
    \/ RemoteOpen
    \/ retryUntilSnapshotLoop
    \/ getSnapshotOK
    \/ OpenInstall
    \/ locks.cmu = "free" /\ pollForUpdatesStart
    \/ pollForUpdatesLock
    \/ locks.cmu = "pollForUpdates" /\ pollForUpdatesInstall
    \/ pollForUpdatesUnlock
    \/ RemoteCreateUserClone
    \/ RemoteCreateUserReturn
    \/ otherClientExec([type |-> "CreateDatabase", name |-> "db0"])
    \/ fsmLock
    \/ locks.smu = "fsm" /\ fsmApply
    \/ fsmUnlock
    \/ locks.smu = "free" /\ \E n \in {x \in NodeInfos : x.ID = 2} :
                                 addMetaNodeStart(n, TRUE)
    \/ locks.smu = "free" /\ addMetaNodeCreate(TRUE)
    \/ locks.smu = "free" /\ addMetaNodeSetData(TRUE)
    \/ addMetaNodeSetData(FALSE)
    \/ locks.smu = "free" /\ addMetaNodeFind
    \/ Return

LockSpec == LockInit /\ [][LockNext]_vars


(***************************************************************************)
(* store.open and store.close on a new store whose addresses are those of  *)
(* opener.n.  Raft is the environment: openRaft finds the store the only   *)
(* voter or one of two, raft elects a leader among the voters until it is  *)
(* shut down, and applies a command only on the leader while it runs.      *)
(***************************************************************************)
openFrame == <<localVars, remoteCacheData, remoteAuthCache, changed, remoteClosing,
               poll, call, raftLog, applied, leader, member, waiter, creators,
               reader, locks>>

\* Data.SetMetaNode: the one node of the table gets the addresses, a table
\* without nodes gets a node with them
DataSetMetaNode(data, httpAddr, raftAddr) ==
    IF Len(data.MetaNodes) = 0
    THEN DataCreateMetaNode(data, httpAddr, raftAddr)
    ELSE [data EXCEPT !.MetaNodes[1].Host = httpAddr,
                      !.MetaNodes[1].TCPHost = raftAddr]

\* open returns err to its caller
openReturns(err) == [opener EXCEPT !.pc = "returned", !.err = err]

\* store.open as far as setOpen: ErrStoreOpen for a store opened before
storeOpen(n) ==
    /\ opener.pc = "idle"
    /\ opener' = IF opener.opened
                 THEN [openReturns("ErrStoreOpen") EXCEPT !.n = n]
                 ELSE [opener EXCEPT !.pc = "openRaft", !.n = n, !.opened = TRUE,
                                     !.err = "nil", !.bound = FALSE]
    /\ UNCHANGED <<store, openFrame>>

\* openRaft: s.raftState = rs with the voters raft knows, or the error of rs.open
openRaft(ok, others) ==
    /\ opener.pc = "openRaft"
    /\ IF ok
       THEN /\ store' = [store EXCEPT !.raftState =
                            [peers |-> {opener.n.TCPHost} \cup others,
                             leader |-> noAddr]]
            /\ opener' = [opener EXCEPT !.pc = "waitForLeader"]
       ELSE /\ opener' = openReturns("raft")
            /\ UNCHANGED store
    /\ UNCHANGED openFrame

\* waitForLeader(0): the select receives from s.closing
waitForLeaderClosing ==
    /\ opener.pc = "waitForLeader"
    /\ opener.closing
    /\ opener' = openReturns("closing")
    /\ UNCHANGED <<store, openFrame>>

\* waitForLeader(0): the select receives from ticker.C; nil when s.leader()
\* is not the empty string, another round otherwise
waitForLeaderTick ==
    /\ opener.pc = "waitForLeader"
    /\ store.raftState.leader # noAddr
    /\ opener' = [opener EXCEPT !.pc = "peers"]
    /\ UNCHANGED <<store, openFrame>>

\* open: s.raftState.peers(), and the loop only when the store is the sole peer
openPeers(ok) ==
    /\ opener.pc = "peers"
    /\ opener' = IF ~ok THEN openReturns("peers")
                 ELSE IF Cardinality(store.raftState.peers) <= 1
                 THEN [opener EXCEPT !.pc = "setMetaNode"]
                 ELSE openReturns("nil")
    /\ UNCHANGED <<store, openFrame>>

\* open: one round of the loop on callSetMetaNode(s.httpAddr, s.raftAddr):
\* break when it returns nil, sleep and call again otherwise
openSetMetaNode(applyOk) ==
    /\ opener.pc = "setMetaNode"
    /\ store.data.Index < MaxStoreIndex
    /\ IF applyOk /\ opener.shut # "done" /\ store.raftState.leader = opener.n.TCPHost
       THEN /\ store' = fsmApplied(store, DataSetMetaNode(store.data, opener.n.Host,
                                                          opener.n.TCPHost))
            /\ opener' = [openReturns("nil") EXCEPT !.bound = TRUE]
       ELSE UNCHANGED <<store, opener>>
    /\ UNCHANGED openFrame

\* the caller of open has its result
openRead ==
    /\ opener.pc = "returned"
    /\ opener' = [opener EXCEPT !.pc = "idle"]
    /\ UNCHANGED <<store, openFrame>>

\* store.close as far as close(s.closing), once
storeClose ==
    /\ ~opener.closing
    /\ opener' = [opener EXCEPT !.closing = TRUE,
                                !.shut = IF store.raftState = Nil THEN "no" ELSE "closing"]
    /\ UNCHANGED <<store, openFrame>>

\* store.close: s.raftState.close() shuts raft down, which then has no leader
raftStateClose ==
    /\ opener.shut = "closing"
    /\ opener' = [opener EXCEPT !.shut = "done"]
    /\ store' = [store EXCEPT !.raftState.leader = noAddr]
    /\ UNCHANGED openFrame

OpenInit ==
    /\ RemoteNew /\ leader = 1
    /\ StoreNew
    /\ CreatorsNew /\ ReaderNew /\ LocksNew /\ OpenerNew
    /\ cacheData = NewData(1)
    /\ cacheObj = 0
    /\ watched = "none"
    /\ authCache = [n \in UserNames |-> Nil]
    /\ metaDb = Nil
    /\ mu = "free"
    /\ closing = FALSE
    /\ opened = FALSE
    /\ retentionPolicyAutoCreate = TRUE
    /\ ret = Nil
    /\ beforeClose = Nil
    /\ authCall = idle
    /\ authRaced = FALSE

openerStep ==
    \/ \E ok \in BOOLEAN, others \in {{}, {tcpAddr(2)}} : openRaft(ok, others)
    \/ waitForLeaderClosing
    \/ waitForLeaderTick
    \/ \E ok \in BOOLEAN : openPeers(ok)
    \/ \E applyOk \in BOOLEAN : openSetMetaNode(applyOk)

OpenNext ==
    \/ \E n \in {x \in NodeInfos : x.ID = 1} : storeOpen(n)
    \/ openerStep
    \/ openRead
    \/ storeClose
    \/ raftStateClose
    \/ opener.shut # "done" /\ \E k \in 1..MaxNodeID : raftElects(tcpAddr(k))
    \/ opener.shut # "done" /\ raftElects(noAddr)
    \/ opener.shut # "done" /\ fsmApply

\* the goroutine in open keeps running
OpenFairSpec == OpenInit /\ [][OpenNext]_vars /\ WF_vars(openerStep)


(***************************************************************************)
(* The LocalClient with mutating calls whose snapshot may fail, a caller   *)
(* of Authenticate that fills the authCache and a holder of the channel    *)
(* WaitForDataChanged returned.                                            *)
(***************************************************************************)
AtomicNext ==
    \/ \E loadOk, ioOk \in BOOLEAN : Open(loadOk, ioOk)
    \/ Return
    \/ \E ioOk \in BOOLEAN : CreateDatabase("db0", ioOk)
    \/ \E ioOk \in BOOLEAN : DropDatabase("db0", ioOk)
    \/ \E n \in UserNames, ioOk \in BOOLEAN : CreateUser(n, "p1", FALSE, 1, ioOk)
    \/ \E n \in UserNames, p \in Passwords, ioOk \in BOOLEAN : UpdateUser(n, p, 1, ioOk)
    \/ \E n \in UserNames, ioOk \in BOOLEAN : DropUser(n, ioOk)
    \/ WaitForDataChanged
    \/ \E n \in UserNames, p \in Passwords : AuthenticateFind(n, p)
    \/ AuthenticateCache(1)
    \/ AuthenticateStore
    \/ AuthenticateReturn

AtomicSpec == AuthInit /\ [][AtomicNext]_vars


(***************************************************************************)
(* Close in every state of the life of a LocalClient, a RemoteClient and   *)
(* a store: before Open, after it, and again.  A close of a nil or closed  *)
(* channel is the panic of the Go runtime.                                 *)
(***************************************************************************)
\* Client.Close on a client that is closed already: the select takes
\* case <-c.closing
CloseAgain ==
    /\ Callable /\ closing
    /\ ret' = [op |-> "Close", arg |-> "", err |-> "nil"]
    /\ UNCHANGED <<remoteVars, cacheData, cacheObj, watched, authCache, metaDb, mu,
                   closing, opened, retentionPolicyAutoCreate, beforeClose, authCall,
                   authRaced>>

\* RemoteClient.Close in any state: c.closing is nil until Open has made it,
\* a receive from a nil channel is never ready, and the default case closes it
RemoteClientClose ==
    /\ ret = Nil
    /\ IF poll.pc = "new"
       THEN /\ ret' = [op |-> "RemoteClose", arg |-> "", err |-> "panic"]
            /\ UNCHANGED remoteClosing
       ELSE /\ ret' = [op |-> "RemoteClose", arg |-> "", err |-> "nil"]
            /\ remoteClosing' = TRUE
    /\ UNCHANGED <<cacheData, cacheObj, watched, authCache, metaDb, mu, closing, opened,
                   retentionPolicyAutoCreate, beforeClose, authCall, authRaced,
                   remoteCacheData, remoteAuthCache, changed, poll, call, serverVars>>

\* store.close in any state; s.raftState.close() on the nil raftState of a
\* store that was never opened returns nil
storeCloseReturns ==
    /\ ret = Nil
    /\ ret' = [op |-> "storeClose", arg |-> "", err |-> "nil"]
    /\ opener' = IF opener.closing THEN opener
                 ELSE [opener EXCEPT !.closing = TRUE,
                          !.shut = IF store.raftState = Nil THEN "no" ELSE "closing"]
    /\ UNCHANGED <<cacheData, cacheObj, watched, authCache, metaDb, mu, closing, opened,
                   retentionPolicyAutoCreate, beforeClose, authCall, authRaced,
                   remoteCacheData, remoteAuthCache, changed, remoteClosing, poll, call,
                   raftLog, applied, leader, storeVars, creators, reader, locks>>

CloseNext ==
    \/ Open(TRUE, TRUE)
    \/ Close
    \/ CloseAgain
    \/ Return
    \/ RemoteOpen
    \/ retryUntilSnapshotLoop
    \/ getSnapshotOK
    \/ OpenInstall
    \/ RemoteClientClose
    \/ \E n \in {x \in NodeInfos : x.ID = 1} : storeOpen(n)
    \/ openRaft(TRUE, {})
    \/ storeCloseReturns
    \/ raftStateClose

CloseSpec == OpenInit /\ [][CloseNext]_vars


(***************************************************************************)
(* The RemoteClient with a caller in waitForIndex beside the poller: the   *)
(* caller's goroutine keeps running; whether the poller gets a snapshot is *)
(* up to the servers.                                                      *)
(***************************************************************************)
WaitInit == RemoteInit /\ leader = 1

WaitNext ==
    \/ RemoteOpen
    \/ RemoteClose
    \/ PollerStep
    \/ \E t \in {"CreateDatabase", "DropDatabase"} :
          retryUntilExecStart([type |-> t, name |-> "db0"])
    \/ CallerStep
    \/ \E t \in {"CreateDatabase", "DropDatabase"} :
          otherClientExec([type |-> t, name |-> "db0"])
    \/ \E s \in metaServers : followerApply(s)

WaitFairSpec == WaitInit /\ [][WaitNext]_vars /\ WF_vars(CallerStep)


(***************************************************************************)
(* Steps and states the properties speak about.                            *)
(***************************************************************************)
\* a method called by the caller returns in this step
Returned == ret = Nil /\ ret' # Nil

ReturnedOK(ops) == Returned /\ ret'.op \in ops /\ ret'.err = "nil"

\* the step builds a fresh client object
Constructed == closing /\ ~closing'

MutatingOps == {"CreateDatabase", "DropDatabase", "CreateUser", "UpdateUser",
                "DropUser", "SetData"}

(***************************************************************************)
(* C1.  Read-your-writes on the RemoteClient: when retryUntilExec returns  *)
(* nil after a server answered the command with index i, the client's      *)
(* cacheData.Index is at least i, however the poller's steps interleave    *)
(* with the call and whatever other clients commit meanwhile.              *)
(***************************************************************************)
C1_ReadYourWrites ==
    (call.pc = "done" /\ call.err = "nil" /\ call.index > 0) =>
        remoteCacheData.Index >= call.index

\* the call was redirected to the leader, blocked on c.changed and returned
C1_Witness ==
    /\ call.pc = "done" /\ call.err = "nil"
    /\ call.index = 3 /\ call.tries = 2 /\ call.ch >= 1
    /\ remoteCacheData.Index = 3

(***************************************************************************)
(* C2.  As claimed: on a LocalClient, cacheData.Index never decreases      *)
(* across any sequence of operations, SetData with an arbitrary Data       *)
(* argument included.                                                      *)
(***************************************************************************)
C2_IndexNeverDecreases ==
    [][Constructed \/ cacheData'.Index >= cacheData.Index]_vars

(***************************************************************************)
(* C2, amended.  Every operation other than SetData leaves Index as it is  *)
(* or raises it; SetData(D) leaves Index as it is (the snapshot failed) or *)
(* sets it to D.Index + 1, whatever the Index was.                         *)
(***************************************************************************)
C2_IndexMonotoneButSetData ==
    [][\/ Constructed
       \/ IF Returned /\ ret'.op = "SetData"
          THEN cacheData'.Index =
                 IF ret'.err = "nil" THEN ret'.arg + 1 ELSE cacheData.Index
          ELSE cacheData'.Index >= cacheData.Index]_vars

\* DropUser has committed and raised the Index to the largest one explored
C2_Witness ==
    /\ ret # Nil /\ ret.op = "DropUser" /\ ret.err = "nil"
    /\ cacheData.Index = MaxIndex

C4_InstalledIndexNeverRegresses ==
    /\ []((poll.caller = "pollForUpdates" /\ poll.pc \in {"loop", "get", "got"})
            => poll.idx = remoteCacheData.Index)
    /\ [][remoteCacheData'.Index >= remoteCacheData.Index]_vars
    /\ [][(poll.pc = "got" /\ poll'.pc = "start") =>
            remoteCacheData'.Index > remoteCacheData.Index]_vars

\* the poller has installed a snapshot of a follower that lags behind the leader
C4_Witness ==
    /\ poll.pc = "start" /\ changed >= 1
    /\ remoteCacheData.Index = 2
    /\ Len(raftLog) = MaxRaftIndex

(***************************************************************************)
(* C5.  As claimed: once RemoteClient.Close has been called, every loop of *)
(* the client (retryUntilExec, waitForIndex, retryUntilSnapshot under      *)
(* pollForUpdates) eventually exits, given that every HTTP request in      *)
(* flight returns.                                                         *)
(***************************************************************************)
C5_LoopsExitAfterClose ==
    remoteClosing ~> (poll.pc = "done" /\ call.pc \in {"idle", "done"})

(***************************************************************************)
(* C6.  As claimed: Authenticate(u, p) on a LocalClient succeeds if and    *)
(* only if u exists and p is u's current password.  Stated for the calls   *)
(* during which no other method changed Data or the cache.                 *)
(***************************************************************************)
C6_AuthenticationEquivalence ==
    (authCall.pc = "ret" /\ ~authRaced) =>
        LET u == user(cacheData, authCall.username)
        IN  (authCall.err = "nil")
              <=> (u # Nil /\ CompareHashAndPassword(u.Hash, authCall.password))

(***************************************************************************)
(* C7.  As claimed: once UpdateUser(name, ...) or DropUser(name) has       *)
(* returned successfully, authCache holds no entry for name and the        *)
(* entries of all other users are unchanged.                               *)
(***************************************************************************)
C7_UpdateAndDropEvict ==
    [][ReturnedOK({"UpdateUser", "DropUser"}) =>
         /\ authCache'[ret'.arg] = Nil
         /\ \A n \in UserNames \ {ret'.arg} : authCache'[n] = authCache[n]]_vars

(***************************************************************************)
(* C8.  When the RemoteClient's poller installs a snapshot, the new        *)
(* authCache holds exactly the old entries whose user is in the new Data   *)
(* with a Hash equal to the entry's bhash; no entry is added or altered.   *)
(***************************************************************************)
C8_InstallFiltersAuthCache ==
    [][(poll.pc = "got" /\ poll.caller = "pollForUpdates" /\ poll'.pc = "start") =>
         /\ remoteCacheData' = poll.data
         /\ \A n \in UserNames :
              LET old == remoteAuthCache[n]
                  u == user(poll.data, n)
              IN  remoteAuthCache'[n] =
                    IF old # Nil /\ u # Nil /\ old.bhash = u.Hash
                    THEN old ELSE Nil]_vars

\* after two installs the entry of u1 is still cached and u2, present, has none
C8_Witness ==
    /\ poll.pc = "start" /\ changed >= 2
    /\ remoteAuthCache["u1"] # Nil /\ remoteAuthCache["u2"] = Nil
    /\ user(remoteCacheData, "u1") # Nil /\ user(remoteCacheData, "u2") # Nil

(***************************************************************************)
(* C9.  As claimed: Authenticate returns ErrUserNotFound when the user is  *)
(* absent and ErrAuthenticate when the password matches neither the cache  *)
(* entry nor the slow hash, leaving authCache and cacheData unchanged in   *)
(* both cases; a cache entry is written only after a successful slow-hash  *)
(* verification and carries the user's current Hash as bhash.              *)
(***************************************************************************)
C9_AuthenticateOutcomes ==
    [][authCall' # authCall /\ authCall'.pc # "idle" =>
         LET name == authCall'.username
             pw == authCall'.password
             u == user(cacheData, name)
             au == authCache[name]
             returns(e) == authCall'.pc = "ret" /\ authCall'.err = e
         IN  /\ (authCall.pc = "idle" /\ u = Nil) => returns("ErrUserNotFound")
             /\ returns("ErrUserNotFound") =>
                  u = Nil /\ authCache' = authCache /\ cacheData' = cacheData
             /\ returns("ErrAuthenticate") =>
                  /\ au = Nil \/ hashWithSalt(au.salt, pw) # au.hash
                  /\ ~CompareHashAndPassword(authCall.userInfo.Hash, pw)
                  /\ authCache' = authCache /\ cacheData' = cacheData
             /\ authCache' # authCache =>
                  /\ u # Nil
                  /\ CompareHashAndPassword(u.Hash, pw)
                  /\ authCache'[name].bhash = u.Hash
                  /\ \A n \in UserNames \ {name} : authCache'[n] = authCache[n]]_vars

(***************************************************************************)
(* C10.  Snapshot persistence on a LocalClient: once Open has returned     *)
(* nil, meta.db holds the current cacheData after every operation,         *)
(* successful or failed; and the Open of a fresh client on the directory   *)
(* of a closed one restores the Data the closed client had, Index          *)
(* included.                                                               *)
(***************************************************************************)
C10_SnapshotPersistence ==
    /\ [](opened => (metaDb # Nil /\ UnmarshalBinary(metaDb) = cacheData))
    /\ [][(~opened /\ opened' /\ beforeClose # Nil) =>
            cacheData' = beforeClose]_vars

\* a fresh client has reopened the directory and holds the data of the closed one
C10_Witness ==
    /\ ret # Nil /\ ret.op = "Open" /\ ret.err = "nil"
    /\ cacheData.Index = 3 /\ Len(cacheData.Users) = 1
    /\ Len(cacheData.Databases) = 1

C12_CreateDatabaseIdempotent ==
    [][(Returned /\ ret'.op = "CreateDatabase") =>
         IF Database(cacheData, ret'.arg) # Nil
         THEN /\ ret'.err = "nil"
              /\ cacheData' = cacheData
              /\ metaDb' = metaDb
         ELSE ret'.err = "nil" =>
                /\ Database(cacheData', ret'.arg) # Nil
                /\ cacheData'.Index = cacheData.Index + 1]_vars

\* CreateDatabase returned nil at Index 1, an Index no commit of it produces
C12_Witness ==
    /\ ret # Nil /\ ret.op = "CreateDatabase" /\ ret.err = "nil"
    /\ cacheData.Index = 1 /\ Database(cacheData, ret.arg) # Nil

(***************************************************************************)
(* C13.  Redirect convergence: with N configured meta servers, a fixed     *)
(* reachable leader L and every other server answering 307 with Location   *)
(* L, a retryUntilExec call sends at most N + 1 POSTs (N retries), returns *)
(* only with a nil error after a 200 answer, and does return.              *)
(***************************************************************************)
C13_RedirectConvergence ==
    /\ [](call.tries <= NumServers + 1)
    /\ [](call.pc = "done" => (call.err = "nil" /\ call.index > 0))
    /\ (call.pc = "loop") ~> (call.pc = "done")

\* a call whose first POST went to a follower has returned nil
C13_Witness ==
    /\ call.pc = "done" /\ call.err = "nil"
    /\ call.tries = 2 /\ leader = NumServers
    /\ call.index = MaxRaftIndex

(***************************************************************************)
(* C14.  After a 307 answer carrying Location L the very next POST of      *)
(* retryUntilExec goes to L, also when L is not the next configured        *)
(* server; when the first configured server is a follower redirecting to   *)
(* the leader and the leader answers 200, the call returns nil after       *)
(* exactly two POSTs, with the cache Index at or above the response Index. *)
(***************************************************************************)
C14_RedirectFollowed ==
    /\ []((call.pc = "post" /\ call.err = "errRedirect") => call.server = leader)
    /\ []((call.pc = "done" /\ leader # 1) =>
            /\ call.err = "nil"
            /\ call.tries = 2
            /\ remoteCacheData.Index >= call.index)

\* redirected from server 1 to leader 3, past server 2, and returned
C14_Witness ==
    /\ call.pc = "done" /\ call.err = "nil" /\ leader = 3
    /\ call.tries = 2 /\ call.currentServer = 2
    /\ call.index >= 2 /\ remoteCacheData.Index >= call.index

(***************************************************************************)
(* Steps of the callers of PrecreateShardGroups.                           *)
(***************************************************************************)
\* a PrecreateShardGroups of the Client returns in this step
Precreated ==
    /\ ret' # Nil /\ ret'.op = "PrecreateShardGroups"
    /\ ret = Nil \/ ret'.again

\* a PrecreateShardGroups of the RemoteClient returns in this step
RemotePrecreated ==
    ret = Nil /\ ret' # Nil /\ ret'.op = "RemoteClient.PrecreateShardGroups"

\* the retention policies of data, as <<database, policy>> names
PolicyNames(data) ==
    {policies(data.Databases)[i] : i \in 1..Len(policies(data.Databases))}

ShardGroupsOf(data, p) == RetentionPolicy(data, p[1], p[2]).ShardGroups

\* every shard group of every retention policy of data
AllShardGroups(data) ==
    UNION {UNION {{data.Databases[i].RetentionPolicies[j].ShardGroups[k] :
                     k \in DOMAIN data.Databases[i].RetentionPolicies[j].ShardGroups} :
                  j \in DOMAIN data.Databases[i].RetentionPolicies} :
           i \in DOMAIN data.Databases}

\* the last group of policy p in data is live and ends inside (from, to)
Due(data, p, from, to) ==
    LET groups == ShardGroupsOf(data, p)
    IN  /\ groups # <<>>
        /\ groups[Len(groups)].DeletedAt = 0
        /\ from < groups[Len(groups)].EndTime
        /\ groups[Len(groups)].EndTime < to

\* policy p has in after a live group that starts where its last group in
\* before ends
HasSuccessor(before, after, p) ==
    LET groups == ShardGroupsOf(before, p)
        g == groups[Len(groups)]
    IN  \E i \in 1..Len(ShardGroupsOf(after, p)) :
           /\ ShardGroupsOf(after, p)[i].DeletedAt = 0
           /\ ShardGroupsOf(after, p)[i].StartTime = g.EndTime
           /\ ShardGroupsOf(after, p)[i].EndTime > g.EndTime

(***************************************************************************)
(* C15.  As claimed: a single PrecreateShardGroups(from, to), on the       *)
(* Client and on the RemoteClient alike, creates the successor group of    *)
(* every retention policy of every database whose last shard group is live *)
(* with EndTime strictly between from and to.                              *)
(***************************************************************************)
C15_PrecreateExaminesEveryPolicy ==
    [][/\ (Precreated /\ ret'.err = "nil") =>
            \A p \in PolicyNames(cacheData) :
               Due(cacheData, p, ret'.arg[1], ret'.arg[2]) =>
                  HasSuccessor(cacheData, cacheData', p)
       /\ RemotePrecreated =>
            \A p \in PolicyNames(remoteCacheData) :
               Due(remoteCacheData, p, ret'.arg[1], ret'.arg[2]) =>
                  HasSuccessor(remoteCacheData, remoteCacheData', p)]_vars

(***************************************************************************)
(* C16.  Client.PrecreateShardGroups(from, to) adds a shard group only to  *)
(* a retention policy whose last group is live and ends strictly between   *)
(* from and to: never to a policy without groups, with a deleted last      *)
(* group, or with a last EndTime <= from or >= to.  When it adds no group  *)
(* it commits nothing: Data, Index and meta.db are as before and c.changed *)
(* has not been closed.                                                    *)
(***************************************************************************)
C16_PrecreateOnlyWhenDue ==
    [][Precreated =>
         /\ \A p \in PolicyNames(cacheData) :
               ShardGroupsOf(cacheData', p) # ShardGroupsOf(cacheData, p) =>
                  Due(cacheData, p, ret'.arg[1], ret'.arg[2])
         /\ (\A p \in PolicyNames(cacheData) :
                ShardGroupsOf(cacheData', p) = ShardGroupsOf(cacheData, p)) =>
               /\ cacheData' = cacheData
               /\ metaDb' = metaDb
               /\ ~ret'.closed]_vars

\* a call has returned nil without a commit although one policy has a deleted
\* last group ending inside the window, one has no group and one has a live
\* last group ending at to
C16_Witness ==
    /\ ret # Nil /\ ret.op = "PrecreateShardGroups" /\ ~ret.again
    /\ ret.err = "nil" /\ ~ret.closed /\ cacheData.Index = 1
    /\ ret.arg = <<1, 4>>
    /\ LET g1 == ShardGroupsOf(cacheData, <<"db0", "rp0">>)
           g2 == ShardGroupsOf(cacheData, <<"db0", "rp1">>)
           g3 == ShardGroupsOf(cacheData, <<"db1", "rp0">>)
       IN  /\ Len(g1) = 1 /\ g1[1].DeletedAt # 0 /\ g1[1].EndTime = 2
           /\ g2 = <<>>
           /\ Len(g3) = 1 /\ g3[1].DeletedAt = 0 /\ g3[1].EndTime = 4

(***************************************************************************)
(* C17.  As claimed: a second PrecreateShardGroups(from, to) with the same *)
(* arguments, right after a call that created a successor group, creates   *)
(* nothing and leaves Data and Index unchanged, whatever the shard-group   *)
(* duration and the window.                                                *)
(***************************************************************************)
C17_SecondPrecreateIsNoOp ==
    [][(Precreated /\ ret'.again /\ ret.closed) => cacheData' = cacheData]_vars

(***************************************************************************)
(* C17, amended.  The second call, when it returns nil, is a no-op exactly *)
(* when no retention policy's last group, as the first call left it, is    *)
(* live with EndTime strictly between from and to.  That is the case       *)
(* whenever to - from is at most the ShardGroupDuration of every policy    *)
(* that has groups; with a wider window the second call creates the next   *)
(* successor and commits.                                                  *)
(***************************************************************************)
C17_SecondPrecreateNoOpWithinDuration ==
    [][(Precreated /\ ret'.again /\ ret.closed /\ ret'.err = "nil") =>
         LET from == ret'.arg[1]
             to == ret'.arg[2]
         IN  /\ cacheData' = cacheData <=>
                   \A p \in PolicyNames(cacheData) : ~Due(cacheData, p, from, to)
             /\ (\A p \in PolicyNames(cacheData) :
                    ShardGroupsOf(cacheData, p) # <<>> =>
                       to - from <= RetentionPolicy(cacheData, p[1], p[2])
                                       .ShardGroupDuration) =>
                   cacheData' = cacheData]_vars

\* the first call created [4, 8) after [0, 4) and the second call, with the
\* same window (3, 5), has returned nil without a commit
C17_Witness ==
    /\ ret # Nil /\ ret.op = "PrecreateShardGroups" /\ ret.again
    /\ ret.err = "nil" /\ ~ret.closed /\ ret.arg = <<3, 5>>
    /\ cacheData.Index = 2 /\ cacheData.MaxShardGroupID = 7
    /\ LET g == ShardGroupsOf(cacheData, <<"db1", "rp0">>)
       IN  Len(g) = 2 /\ g[2].ID = 7 /\ g[2].StartTime = 4 /\ g[2].EndTime = 8

(***************************************************************************)
(* Steps of the callers of the retention-policy methods.                   *)
(***************************************************************************)
RetentionOps == {"CreateRetentionPolicy", "CreateDatabaseWithRetentionPolicy"}

RemoteRetentionOps == {"RemoteClient.CreateRetentionPolicy",
                       "RemoteClient.CreateDatabaseWithRetentionPolicy"}

\* the Duration of the spec is set, not zero and below the floor
BelowFloor(spec) ==
    \E d \in 1..(MinRetentionPolicyDuration - 1) : spec.Duration = <<d>>

\* data has in database a policy named as the spec with another duration or
\* replication factor
Conflicting(data, database, spec) ==
    \E i \in 1..Len(data.Databases) :
       /\ data.Databases[i].Name = database
       /\ \E j \in 1..Len(data.Databases[i].RetentionPolicies) :
             LET rp == data.Databases[i].RetentionPolicies[j]
             IN  /\ rp.Name = spec.Name
                 /\ \/ rp.ReplicaN # spec.ReplicaN
                    \/ rp.Duration # (IF spec.Duration = <<>> THEN 0
                                      ELSE spec.Duration[1])

(***************************************************************************)
(* C18.  As claimed: CreateRetentionPolicy and                             *)
(* CreateDatabaseWithRetentionPolicy, on the Client and on the             *)
(* RemoteClient, answer every spec whose Duration is non-zero and below    *)
(* MinRetentionPolicyDuration with ErrRetentionPolicyDurationTooLow,       *)
(* change no state and send no command; a Duration of 0 or of at least     *)
(* MinRetentionPolicyDuration never gets that error.                       *)
(***************************************************************************)
C18_DurationFloor ==
    [][(Returned /\ ret'.op \in RetentionOps \cup RemoteRetentionOps) =>
         IF BelowFloor(ret'.arg.spec)
         THEN /\ ret'.err = "ErrRetentionPolicyDurationTooLow"
              /\ cacheData' = cacheData /\ metaDb' = metaDb
              /\ remoteCacheData' = remoteCacheData /\ raftLog' = raftLog
              /\ ret'.op \in RemoteRetentionOps => ~ret'.sent
         ELSE ret'.err # "ErrRetentionPolicyDurationTooLow"]_vars

(***************************************************************************)
(* C19.  As claimed: CreateRetentionPolicy(db, spec, makeDefault), on the  *)
(* Client and on the RemoteClient, never returns success when db already   *)
(* has a retention policy named spec.Name with a different duration or     *)
(* replication; it fails, and with the name-conflict error when the spec   *)
(* passes the duration floor.                                              *)
(***************************************************************************)
C19_NameConflict ==
    [][/\ (Returned /\ ret'.op = "CreateRetentionPolicy"
             /\ Conflicting(cacheData, ret'.arg.database, ret'.arg.spec)) =>
            /\ ret'.err # "nil"
            /\ ~BelowFloor(ret'.arg.spec) => ret'.err = "ErrRetentionPolicyExists"
       /\ (Returned /\ ret'.op = "RemoteClient.CreateRetentionPolicy"
             /\ Conflicting(remoteCacheData, ret'.arg.database, ret'.arg.spec)) =>
            /\ ret'.err # "nil"
            /\ ~BelowFloor(ret'.arg.spec) => ret'.err = "ErrRetentionPolicyExists"]_vars

(***************************************************************************)
(* C20.  As claimed: RemoteClient.AcquireLease returns the decoded lease   *)
(* and a nil error on a 200 response; the error "another node owns the     *)
(* lease" on a 409 response, without a retry; ErrServiceUnavailable after  *)
(* retrying 503 responses, never making more than 10 requests; and         *)
(* whatever any other outcome gives, without a retry.                      *)
(***************************************************************************)
C20_AcquireLeaseOutcomes ==
    [][/\ (call.pc = "lease" /\ call'.pc = "lease" /\ call' # call) =>
            (call'.index = 503 /\ call'.tries < leaseAttempts)
       /\ (Returned /\ ret'.op = "AcquireLease") =>
            /\ ret'.requests <= leaseAttempts
            /\ (ret'.resp.status = 200 /\ ret'.resp.body = "lease") =>
                  (ret'.err = "nil" /\ ret'.l = decoded(ret'.arg, ret'.resp))
            /\ ret'.resp.status = 409 => ret'.err = "another node owns the lease"
            /\ ret'.resp.status = 503 =>
                  (ret'.err = "ErrServiceUnavailable"
                     /\ ret'.requests = leaseAttempts)
            /\ ret'.resp.status \notin {200, 409, 503} => ret'.err # "nil"]_vars

(***************************************************************************)
(* C21.  As claimed: store.removeMetaNode(n) refuses to remove the current *)
(* leader: whenever n is the meta node that is raft's leader, it returns   *)
(* an error, removes no voter and emits no DeleteMetaNode command, in any  *)
(* meta-node table, the HTTP and raft addresses of a node equal or not.    *)
(***************************************************************************)
C21_RemoveMetaNodeRefusesLeader ==
    [][(/\ Returned /\ ret'.op = "store.removeMetaNode"
        /\ store.raftState # Nil
        /\ ret'.arg \in nodes(store.data)
        /\ ret'.arg.TCPHost = store.raftState.leader) =>
            /\ ret'.err # "nil"
            /\ store'.raftState.peers = store.raftState.peers
            /\ \A i \in 1..Len(ret'.calls) : ret'.calls[i] # "DeleteMetaNode"]_vars

(***************************************************************************)
(* C22.  store.addMetaNode(n) has added n.TCPHost to raft's voters when it *)
(* emits CreateMetaNode; when the store is not open or addVoter fails it   *)
(* returns an error and has emitted no command; when it returns nil it     *)
(* returns the node of the table that has both n.Host and n.TCPHost, and   *)
(* when the table has no such node it returns ErrNodeNotFound.             *)
(***************************************************************************)
C22_AddMetaNodeVoterThenCommand ==
    [][/\ member'.pc = "create" =>
            /\ member'.calls = <<"addVoter">>
            /\ member'.n.TCPHost \in store'.raftState.peers
       /\ (Returned /\ ret'.op = "store.addMetaNode") =>
            /\ store.raftState = Nil => (ret'.err # "nil" /\ ret'.calls = <<>>)
            /\ ret'.calls = <<"addVoter">> => (ret'.err # "nil" /\ store' = store)
            /\ ret'.calls # <<>> => ret'.calls[1] = "addVoter"
            /\ ret'.err = "nil" =>
                  /\ ret'.node \in nodes(store.data)
                  /\ ret'.node.Host = ret'.arg.Host
                  /\ ret'.node.TCPHost = ret'.arg.TCPHost
            /\ (/\ member.pc = "find"
                /\ ~\E m \in nodes(store.data) :
                       m.Host = ret'.arg.Host /\ m.TCPHost = ret'.arg.TCPHost) =>
                  ret'.err = "ErrNodeNotFound"]_vars

\* addMetaNode has returned a node that it created, its HTTP address not its
\* raft address
C22_Witness ==
    /\ ret # Nil /\ ret.op = "store.addMetaNode" /\ ret.err = "nil"
    /\ ret.node.Host # ret.node.TCPHost
    /\ ret.node.ID > MaxNodeID
    /\ ret.node.TCPHost \in store.raftState.peers

(***************************************************************************)
(* C23.  store.afterIndex(idx) returns a closed channel exactly when the   *)
(* Index of the store is greater than idx, and the current dataChanged     *)
(* otherwise; a goroutine that waits on the channel is never blocked while *)
(* the Index of the store is greater than idx.                             *)
(***************************************************************************)
C23_AfterIndexNoLostWakeup ==
    [][/\ (waiter.pc = "idle" /\ waiter'.pc = "waiting") =>
            /\ waiter'.ch = closedCh <=> store.data.Index > waiter'.idx
            /\ waiter'.ch # closedCh => waiter'.ch = store.dataChanged
       /\ (waiter'.pc = "waiting" /\ ~isClosed(store', waiter'.ch)) =>
            ~(store'.data.Index > waiter'.idx)]_vars

\* the waiter was handed dataChanged, and the advance of Index past idx has
\* closed it
C23_Witness ==
    /\ waiter.pc = "waiting" /\ waiter.ch # closedCh
    /\ isClosed(store, waiter.ch)
    /\ store.data.Index > waiter.idx

(***************************************************************************)
(* C24.  Client.PruneShardGroups removes exactly the shard groups whose    *)
(* DeletedAt is not zero and is older than now minus 14 days, keeps every  *)
(* live group and every group deleted later than that, and commits (Index  *)
(* advances by one) if and only if it removed at least one group.          *)
(***************************************************************************)
C24_PruneRemovesExactlyExpired ==
    [][(Returned /\ ret'.op = "PruneShardGroups") =>
          LET now == ret'.arg
              expired(g) == g.DeletedAt # 0 /\ g.DeletedAt + 2 < now
              someExpired == \E g \in AllShardGroups(cacheData) : expired(g)
          IN  /\ ret'.err = "nil" =>
                   /\ \A i \in DOMAIN cacheData.Databases :
                        \A j \in DOMAIN cacheData.Databases[i].RetentionPolicies :
                           cacheData'.Databases[i].RetentionPolicies[j].ShardGroups =
                              SelectSeq(
                                 cacheData.Databases[i].RetentionPolicies[j].ShardGroups,
                                 LAMBDA g : ~expired(g))
                   /\ cacheData'.Index =
                         IF someExpired THEN cacheData.Index + 1 ELSE cacheData.Index
                   /\ someExpired <=> metaDb' # metaDb
              /\ ret'.err # "nil" => (someExpired /\ cacheData' = cacheData)]_vars

\* a call at week 5 has removed a group deleted at week 2 and kept a live
\* group and one deleted at week 3, two weeks before the call
C24_Witness ==
    /\ ret # Nil /\ ret.op = "PruneShardGroups" /\ ret.err = "nil" /\ ret.arg = 5
    /\ cacheData.Index = 2
    /\ \E g \in AllShardGroups(cacheData) : g.DeletedAt = 0
    /\ \E g \in AllShardGroups(cacheData) : g.DeletedAt = 3
    /\ MarshalBinary(cacheData) = metaDb

(***************************************************************************)
(* C25.  Concurrent calls of Client.CreateShardGroup for one (database,    *)
(* retention policy, timestamp) create one shard group and commit once:    *)
(* a call commits only when no live group holds the timestamp, and then    *)
(* adds exactly one group; every call whose snapshot is written returns,   *)
(* without error, the live group that holds the timestamp, the same for    *)
(* all of them; and the live groups of a retention policy never overlap.   *)
(***************************************************************************)
C25_ConcurrentCreateShardGroup ==
    [][/\ \A c \in Creators :
            (creators[c].pc # "done" /\ creators'[c].pc = "done") =>
               LET r == creators'[c]
                   held(data) == ShardGroupByTimestamp(data, r.arg[1], r.arg[2], r.arg[3])
               IN  /\ r.err \in {"nil", "io"}
                   /\ r.err = "nil" => (r.sgi # Nil /\ r.sgi = held(cacheData'))
                   /\ r.committed =>
                         /\ held(cacheData) = Nil
                         /\ r.err = "nil"
                         /\ cacheData'.Index = cacheData.Index + 1
                         /\ AllShardGroups(cacheData') =
                               AllShardGroups(cacheData) \cup {r.sgi}
                   /\ ~r.committed => cacheData' = cacheData
                   /\ r.err = "io" => held(cacheData) = Nil
       /\ \A c, d \in Creators :
            (/\ creators'[c].pc = "done" /\ creators'[d].pc = "done"
             /\ creators'[c].arg = creators'[d].arg
             /\ creators'[c].err = "nil" /\ creators'[d].err = "nil") =>
               /\ creators'[c].sgi = creators'[d].sgi
               /\ c # d => ~(creators'[c].committed /\ creators'[d].committed)
       /\ \A a, b \in AllShardGroups(cacheData') :
            (a # b /\ ~Deleted(a) /\ ~Deleted(b)) =>
               (a.EndTime <= b.StartTime \/ b.EndTime <= a.StartTime)]_vars

\* both callers passed the check under the read lock before either took the
\* write lock; the first created the group, the second found it there
C25_Witness ==
    /\ creators[1].pc = "done" /\ creators[2].pc = "done"
    /\ creators[1].arg = creators[2].arg
    /\ creators[1].committed /\ creators[2].locked /\ ~creators[2].committed
    /\ creators[1].err = "nil" /\ creators[2].err = "nil"
    /\ creators[1].sgi = creators[2].sgi

(***************************************************************************)
(* C26.  As claimed: in retryUntilExec a 307 answer does not count as an   *)
(* attempt: a redirected request leaves the counter that is compared with  *)
(* maxRetries as it was, and redirects alone never make the call give up.  *)
(***************************************************************************)
C26_RedirectIsNoAttempt ==
    [][/\ (call.pc = "post" /\ call'.pc # "post" /\ call'.err = "errRedirect") =>
             call'.tries = call.tries
       /\ (call.pc = "post" /\ call'.pc = "done") => call'.err # "errRedirect"]_vars

(***************************************************************************)
(* C27.  As claimed: when every request fails with a transport error or a  *)
(* status that is neither 200 nor 307, retryUntilExec sends exactly        *)
(* maxRetries POSTs and returns the error of the last one.                 *)
(***************************************************************************)
C27_ExactlyMaxRetriesPosts ==
    [][(call.pc = "post" /\ call'.pc = "done") =>
          (call'.err = "http" /\ call'.tries = maxRetries)]_vars

(***************************************************************************)
(* C28.  When a server answers 200 with an error string that is not empty, *)
(* retryUntilExec returns that error at once: the call is over with the    *)
(* string of the server as its error, and it makes no other request and    *)
(* does not wait on c.changed before its caller has the error.             *)
(***************************************************************************)
C28_CommandErrorReturnedAtOnce ==
    [][/\ (call.pc = "post" /\ call'.pc # "post" /\ call'.err = "errCommand") =>
             /\ call'.pc = "done"
             /\ call'.msg = applyCommand(storeData(leader), call.cmd).err
             /\ call'.msg \notin {"", "nil"}
             /\ raftLog' = raftLog
       /\ (call.pc = "done" /\ call.err = "errCommand" /\ call' # call) =>
             call' = callIdle
       /\ call'.err = "errCommand" => call'.pc \in {"done"}]_vars

\* the call was redirected to the leader, which answered 200 with an error
C28_Witness ==
    /\ call.pc = "done" /\ call.err = "errCommand"
    /\ call.tries = 2 /\ call.msg # ""

(***************************************************************************)
(* C29.  As claimed: after a network error or a 5xx on the request to      *)
(* metaServers[k], the next request of retryUntilExec, which is no         *)
(* redirect, goes to metaServers[(k+1) mod N]: the servers are tried       *)
(* round-robin, and the index taken from currentServer is always within    *)
(* the list.  Server j of the model is metaServers[j - 1].                 *)
(***************************************************************************)
C29_RoundRobinAfterFailure ==
    [][/\ (call.pc = "post" /\ call'.pc = "loop" /\ call'.err = "http") =>
             /\ call'.redirectServer = 0
             /\ (IF call'.currentServer >= NumServers THEN 0
                 ELSE call'.currentServer) = call.server % NumServers
       /\ (call.pc = "loop" /\ call'.pc = "post" /\ call.redirectServer = 0) =>
             /\ call'.currentServer \in 0..(NumServers - 1)
             /\ call'.currentServer = (IF call.currentServer >= NumServers THEN 0
                                       ELSE call.currentServer)
             /\ call'.server = call'.currentServer + 1]_vars

\* C30: copy-on-write on the LocalClient.  The Data object installed as
\* c.cacheData is never changed in place: whenever the client's Data differs
\* after a step (the construction of a new client aside), c.cacheData points
\* to another object, no reader holds the read lock, and the new Data is the
\* one commit has written to meta.db; and what a concurrent Client.Data
\* returns is in full the Data the client had when the call began or the one
\* it has when the call ends, never fields of both.
C30_CopyOnWrite ==
    [][/\ (cacheData' # cacheData /\ ~(closing /\ ~closing')) =>
              /\ cacheObj' # cacheObj
              /\ ~RLocked
              /\ metaDb' = MarshalBinary(cacheData')
              /\ cacheData'.Index > 1
       /\ (reader.pc = "half" /\ reader'.pc = "done") =>
              reader'.d \in {reader.old, cacheData'}]_vars

\* C31: the change broadcast.  On the Client, a channel got from
\* WaitForDataChanged is closed by the next call that commits (the client's
\* Data differs and the call returned nil) and by nothing else: a step closes
\* it only when a call returned nil and meta.db holds the new Data.  On the
\* RemoteClient, the poller's install of a snapshot with a higher Index
\* closes the current channel and puts a new one in its place (the count of
\* closed channels goes up by one), and no other step closes a channel, so
\* none is closed twice.
C31_ChangeBroadcast ==
    [][/\ (watched = "open" /\ opened /\ Returned /\ ret'.err = "nil"
                /\ cacheData' # cacheData) => watched' = "closed"
       /\ (watched = "open" /\ watched' = "closed") =>
              /\ Returned /\ ret'.err = "nil"
              /\ cacheData'.Index = cacheData.Index + 1
              /\ metaDb' = MarshalBinary(cacheData')
       /\ watched = "closed" => watched' \in {"closed", "open"}
       /\ (poll.caller = "pollForUpdates"
                /\ remoteCacheData'.Index > remoteCacheData.Index) =>
              changed' = changed + 1
       /\ changed' # changed =>
              /\ changed' = changed + 1
              /\ poll.pc = "got" /\ poll.caller = "pollForUpdates"
              /\ remoteCacheData'.Index > remoteCacheData.Index]_vars

\* a commit has closed the channel its holder got from the Client, and the
\* poller has closed two channels of the RemoteClient one after the other
C31_Witness == watched = "closed" /\ changed = 2

\* C32: every access of the shared metadata pointer is made under the mutex
\* that owns it.  c.cacheData of the RemoteClient is assigned only inside a
\* section under c.mu.Lock; RemoteClient.CreateUser reads it holding the lock
\* and never while the poller is inside its write section; callSetData reads
\* s.data never while the FSM is inside its write section, and s.data changes
\* only inside a section under s.mu.Lock.
C32_AccessUnderMutex ==
    [][/\ remoteCacheData' # remoteCacheData => locks.cmu # "free"
       /\ (locks.user.pc = "idle" /\ locks'.user.pc = "cloned") =>
              /\ locks'.user.held \in {"R", "W"}
              /\ locks.cmu = "free"
       /\ (member.pc = "setData" /\ member'.pc # "setData") => locks.smu = "free"
       /\ (store'.data # store.data /\ member' = member) => locks.smu = "fsm"]_vars

\* C33: store.open.  waitForLeader(0) returns nil only when the store knows a
\* leader, and returns an error when the store has been closed; open on a
\* store that is the sole raft peer returns nil only after a SetMetaNode with
\* its addresses was applied, the table then holding a node with both; and
\* once the store is closed, a call of open eventually returns.
C33_StoreOpen ==
    /\ [][/\ (opener.pc = "waitForLeader" /\ opener'.pc = "peers") =>
                 (store.raftState.leader # noAddr)
          /\ (opener.pc = "waitForLeader" /\ opener.closing /\ opener'.pc # "waitForLeader") =>
                 (opener'.err = "closing")
          /\ (opener.pc = "setMetaNode" /\ opener'.pc = "returned" /\ opener'.err = "nil") =>
                 (/\ opener'.bound
                  /\ \E n \in nodes(store'.data) :
                         n.Host = opener.n.Host /\ n.TCPHost = opener.n.TCPHost)]_vars
    /\ (opener.closing ~> opener.pc \in {"idle", "returned"})

\* C34: every operation of the LocalClient releases the client's mutex on
\* every return path: when an operation returns, with nil or with an error,
\* c.mu is free, so that the next operation can take it.
C34_MutexReleased == [][Returned => mu' = "free"]_vars

\* C35: error atomicity on the LocalClient: when a mutating operation returns
\* an error, cacheData (its Index included), the object it points to, meta.db,
\* the changed channel and the authCache are as they were before the call.
C35_ErrorAtomicity ==
    [][(Returned /\ ret'.op \in MutatingOps /\ ret'.err # "nil") =>
          /\ cacheData' = cacheData
          /\ cacheObj' = cacheObj
          /\ metaDb' = metaDb
          /\ watched' = watched
          /\ authCache' = authCache]_vars

\* C36: retryUntilExec returns nil only if a server executed the command and
\* answered 200 with no error: the command is then the entry of the raft log
\* at the index the server answered, also when the client was closed before
\* or between the attempts.
C36_NilOnlyIfExecuted ==
    (call.pc = "done" /\ call.err = "nil") =>
        /\ call.index \in 2..Len(raftLog)
        /\ raftLog[call.index] =
              [applyCommand(raftLog[call.index - 1], call.cmd).data
                   EXCEPT !.Index = call.index]

\* C37: Close is idempotent and safe in every state of the life of a
\* LocalClient, a RemoteClient and the store, before Open included: it never
\* panics (no channel is closed twice or while nil), it returns nil, and a
\* call on an object that is closed already changes nothing.
C37_CloseIdempotent ==
    [][(Returned /\ ret'.op \in {"Close", "RemoteClose", "storeClose"}) =>
          /\ ret'.err = "nil"
          /\ (ret'.op = "Close" /\ closing) =>
                 UNCHANGED <<cacheData, cacheObj, watched, authCache, metaDb, mu,
                             closing, opened>>
          /\ (ret'.op = "RemoteClose" /\ remoteClosing) => UNCHANGED remoteVars
          /\ (ret'.op = "storeClose" /\ opener.closing) =>
                 UNCHANGED <<store, opener>>]_vars

\* C38: the authCache of the LocalClient is consistent in every reachable
\* state, with Authenticate running beside the user methods: every entry
\* belongs to a user of the current Data and its bhash is that user's Hash,
\* so that no entry accepts a password UpdateUser has replaced.
C38_AuthCacheConsistent ==
    \A n \in UserNames :
        authCache[n] # Nil =>
            /\ user(cacheData, n) # Nil
            /\ authCache[n].bhash = user(cacheData, n).Hash

\* C39: no lost wake-up in waitForIndex: once the poller has installed a
\* snapshot with Index >= idx while a call of waitForIndex(idx) is at its
\* check or blocked on the channel it took, the call returns, however the
\* check, the taking of c.changed and the poller's install interleave.
C39_NoLostWakeup ==
    (call.pc \in {"wait", "blocked"} /\ remoteCacheData.Index >= call.index)
        ~> (call.pc = "done")

\* the call blocked on c.changed below its index, the poller installed the
\* snapshot and closed the channel, and the call has returned
C39_Witness ==
    /\ call.pc = "done" /\ call.err = "nil" /\ call.tries = 1
    /\ call.ch >= 1 /\ call.ch < changed
    /\ remoteCacheData.Index = call.index

=============================================================================
